---------------------------- MODULE Spec2Model ----------------------------
(***************************************************************************)
(* CorridorOS: the Free-Form Memory daemon (memqosd), the HELIOPASS        *)
(* calibration simulator and the synchrony-analytics service.              *)
(*                                                                         *)
(*   SpecSkel    the memqosd skeleton daemon as written                    *)
(*               (CorridorOS/daemons/memqosd_skeleton.go)                  *)
(*   SpecHelio   HELIOPASSSimulator.Simulate (labs/helio-sim)              *)
(*   SpecLedger  the allocation ledger, tier migrator and QoS enforcer of  *)
(*               memqosd, whose implementation (daemon/memqosd) is not     *)
(*               among the sources; modelled from the specification        *)
(*   SpecEnforcer the QoS enforcer of memqosd over the same ledger          *)
(*   SpecServer  the HELIOPASS HTTP server: concurrent simulate requests   *)
(*   SpecLanes   the per-lane control outputs of Simulate                  *)
(*   SpecSync    synchrony-analytics: sessions, ingest and metrics         *)
(*               (labs/synchrony-analytics/main.go)                        *)
(*   SpecSavings calculatePowerSavings of HELIOPASS                        *)
(*   SpecMesh    MemoryMesh: leases and one-shot buffers                   *)
(*   SpecSprint  HostOrchestrator: sprints and their auto-end timers       *)
(*   SpecLock    synchrony-analytics: the service lock and Streams         *)
(*   SpecSdk     the Go SDK client and the ffm-demo against memqosd        *)
(*   SpecEnclave ConfidentialComputeService: enclaves and secrets          *)
(***************************************************************************)
EXTENDS Integers, Sequences, FiniteSets, TLC

VARIABLES
    \* ---- memqosd skeleton: the HTTP exchanges it has served
    exchanges,
    \* ---- HELIOPASS Simulate: one call
    simPc, rawReq, simReq, currentBER, currentEyeMargin, iterations, converged,
    laneCount, lastCheck, tieBreaks, simResp, berProfileMin,
    temperatureProfile, berProfile, eyeMarginProfile,
    \* ---- memqosd ledger, migrator and enforcer
    ledger, nextId, usedBytes, committedBw, mig, records,
    violations, attempts, intent, lastResult,
    \* ---- HELIOPASS HTTP server: the simulator every request shares and the
    \* requests being served
    simulator, runs,
    \* ---- HELIOPASS Simulate: the per-lane control outputs of one call
    lanePc, laneReq, noise, biasVoltages, lambdaShifts, laserPowerAdjust,
    laneIterations, laneConverged, checkOk, applied, measuredAt, laneResp,
    \* ---- synchrony-analytics: the session store and the latest exchange
    sessions, syncLast, syncCount,
    \* ---- calculatePowerSavings applied to a setting and to the one before it
    savIn, savOut, savPrev,
    \* ---- MemoryMesh: its fields, its timers, the clock and the latest call
    totalMemory, usedMemory, opticalLeases, quantumLeases, buffers, updateInterval,
    deleteTimers, meshNow, nextMeshId, meshLast, released, returned,
    \* ---- HostOrchestrator: the sprint fields, the armed auto-end timers, the clock
    isRunning, currentSprint, sprints, autoEndTimers, sprintNow, sprintLast,
    \* ---- synchrony-analytics: Service.mu and the goroutines serving ingest and metrics
    mu, workers,
    \* ---- the Go SDK client and the ffm-demo calling memqosd: the calls made
    sdkCalls,
    \* ---- ConfidentialComputeService: its enclaves and secrets, the ids handed out, the latest call
    enclaves, secrets, nextFreshId, randFailed, terminated, belonged, enclaveLast

skelVars  == <<exchanges>>
ledgerVars == <<ledger, nextId, usedBytes, committedBw, mig, records,
                violations, attempts, intent, lastResult>>
helioVars == <<simPc, rawReq, simReq, currentBER, currentEyeMargin, iterations,
               converged, laneCount, lastCheck, tieBreaks, simResp, berProfileMin,
               temperatureProfile, berProfile, eyeMarginProfile>>
srvVars == <<simulator, runs>>
\* the variables of the components other than the first three
laneVars == <<lanePc, laneReq, noise, biasVoltages, lambdaShifts, laserPowerAdjust,
              laneIterations, laneConverged, checkOk, applied, measuredAt, laneResp>>
syncVars == <<sessions, syncLast, syncCount>>
savVars == <<savIn, savOut, savPrev>>
meshVars == <<totalMemory, usedMemory, opticalLeases, quantumLeases, buffers, updateInterval,
    deleteTimers, meshNow, nextMeshId, meshLast, released, returned>>
sprintVars == <<isRunning, currentSprint, sprints, autoEndTimers, sprintNow, sprintLast>>
lockVars == <<mu, workers>>
sdkVars == <<sdkCalls>>
enclaveVars == <<enclaves, secrets, nextFreshId, randFailed, terminated, belonged, enclaveLast>>
moreVars == <<savVars, meshVars, sprintVars, lockVars, sdkVars, enclaveVars>>
restVars == <<srvVars, laneVars, syncVars, moreVars>>
\* every component but one
firstVars == <<skelVars, helioVars, ledgerVars, srvVars, laneVars, syncVars>>
exceptSav == <<firstVars, meshVars, sprintVars, lockVars, sdkVars, enclaveVars>>
exceptMesh == <<firstVars, savVars, sprintVars, lockVars, sdkVars, enclaveVars>>
exceptSprint == <<firstVars, savVars, meshVars, lockVars, sdkVars, enclaveVars>>
exceptLock == <<firstVars, savVars, meshVars, sprintVars, sdkVars, enclaveVars>>
exceptSdk == <<firstVars, savVars, meshVars, sprintVars, lockVars, enclaveVars>>
exceptEnclave == <<firstVars, savVars, meshVars, sprintVars, lockVars, sdkVars>>
vars == <<skelVars, helioVars, ledgerVars, restVars>>

Null == "null"

(***************************************************************************)
(* Tier catalog.  Bytes are counted in GiB, bandwidth in GB/s.             *)
(***************************************************************************)
Tiers == {"T0", "T1", "T2", "T3"}

TierCapacity == [t \in Tiers |->
    CASE t = "T0" -> 32 [] t = "T1" -> 64 [] t = "T2" -> 128 [] OTHER -> 256]

TierBandwidthCeiling == [t \in Tiers |->
    CASE t = "T0" -> 500 [] t = "T1" -> 300 [] t = "T2" -> 150 [] OTHER -> 60]

(***************************************************************************)
(* The memqosd skeleton.  Its DefaultServeMux has one route; ffmAlloc      *)
(* decodes the body and, when it decodes, always replies 200 with the      *)
(* fixed handle.                                                           *)
(***************************************************************************)
MaxRequests == 3

AllocPath == "/v1/ffm/alloc"
Paths == {AllocPath, "/v1/ffm/ffm-9c2e/bandwidth",
          "/v1/ffm/ffm-9c2e/latency_class", "/v1/ffm/ffm-9c2e/telemetry"}

ReqBytes  == {16, 32, 33}
ReqFloors == {100, 500, 600}

FFMAllocRequest ==
    [Bytes : ReqBytes, LatencyClass : {"T0", "T2"}, BandwidthFloorGBs : ReqFloors]

NoRequest == [Bytes |-> 0, LatencyClass |-> Null, BandwidthFloorGBs |-> 0]

FFMAllocReply == [Handle |-> "ffm-9c2e", PolicyLeaseTTLsec |-> 3600]
NoReply == [Handle |-> Null, PolicyLeaseTTLsec |-> 0]

\* ffmAlloc: the reply to one request body
ffmAllocResponse(decodes, req) ==
    IF ~decodes
      THEN [path |-> AllocPath, req |-> NoRequest, status |-> 400, reply |-> NoReply]
      ELSE [path |-> AllocPath, req |-> req, status |-> 200, reply |-> FFMAllocReply]

ffmAlloc ==
    /\ Len(exchanges) < MaxRequests
    /\ \E decodes \in BOOLEAN, req \in FFMAllocRequest :
         exchanges' = Append(exchanges, ffmAllocResponse(decodes, req))
    /\ UNCHANGED <<helioVars, ledgerVars, restVars>>

\* main: every path other than /v1/ffm/alloc has no handler (404)
notFound ==
    /\ Len(exchanges) < MaxRequests
    /\ \E p \in Paths \ {AllocPath} :
         exchanges' = Append(exchanges,
             [path |-> p, req |-> NoRequest, status |-> 404, reply |-> NoReply])
    /\ UNCHANGED <<helioVars, ledgerVars, restVars>>

\* the grants the daemon has issued, in order
IsGrant(x) == x.path = AllocPath /\ x.status = 200
Grants == SelectSeq(exchanges, IsGrant)

RECURSIVE FloorSum(_, _)
FloorSum(gs, t) ==
    IF gs = <<>> THEN 0
    ELSE (IF Head(gs).req.LatencyClass = t THEN Head(gs).req.BandwidthFloorGBs ELSE 0)
         + FloorSum(Tail(gs), t)

RECURSIVE BytesSum(_, _)
BytesSum(gs, t) ==
    IF gs = <<>> THEN 0
    ELSE (IF Head(gs).req.LatencyClass = t THEN Head(gs).req.Bytes ELSE 0)
         + BytesSum(Tail(gs), t)

(***************************************************************************)
(* HELIOPASS.  BER is counted in units of 1e-15, eye margin in units of    *)
(* 1e-4 UI, factors in 1/1000, angles in centiradians.                     *)
(***************************************************************************)
MaxIterations == 50

DefaultLambdaCount == 8
DefaultInitialBER == 1000000
DefaultInitialEyeMargin == 5000
DefaultDuration == 60
MinBER == 1
EyeTarget == 8000
EyeLow == 1000
EyeHigh == 15000
EyeThreshold == 7000

\* GetAmbientProfiles: NoiseLevel in 1/1000
ProfileNoise(p) ==
    CASE p = "lab_default" -> 50
      [] p = "field_noise_low" -> 100
      [] p = "field_noise_high" -> 200
      [] p = "datacenter" -> 80
      [] p = "space_sim" -> 10
KnownProfiles ==
    {"lab_default", "field_noise_low", "field_noise_high", "datacenter", "space_sim"}

Max(a, b) == IF a >= b THEN a ELSE b
Min(a, b) == IF a <= b THEN a ELSE b

\* exp(-0.8) and exp(-0.8 * 0.8), in 1/10000
ExpStepBER == 4493
ExpStepEye == 5273

RECURSIVE ExpPow(_, _)
ExpPow(step, n) == IF n = 0 THEN 10000 ELSE (ExpPow(step, n - 1) * step) \div 10000

\* math.Sin of an angle in centiradians, in 1/1000 (Bhaskara's approximation)
HalfTurn == 314
SinArc(x) == (16000 * x * (HalfTurn - x)) \div (5 * HalfTurn * HalfTurn - 4 * x * (HalfTurn - x))
Sin(c) ==
    LET x == c % (2 * HalfTurn)
    IN  IF x <= HalfTurn THEN SinArc(x) ELSE 0 - SinArc(x - HalfTurn)

\* rand.Float64() - 0.5, in 1/1000: the two ends of its range [-0.5, 0.5)
Centred == {-500, 499}

calculateImprovement(i, noiseLevel, r) ==
    (ExpPow(ExpStepBER, i) \div 10) + ((r * noiseLevel) \div 1000)

calculateBERNoise(i, duration, noiseLevel, r) ==
    ((Sin(i * duration) * noiseLevel) \div 2000) + ((r * noiseLevel) \div 1000)

calculateEyeImprovement(i, noiseLevel, r) ==
    (ExpPow(ExpStepEye, i) \div 10) + ((r * noiseLevel) \div 10000)

calculateEyeNoise(i, duration, noiseLevel, r) ==
    ((Sin((i * duration * 6) \div 10) * noiseLevel) \div 20000)
    + ((r * noiseLevel) \div 10000)

\* the convergence check of one iteration
BEROkDouble(ber, target) == ber <= 2 * target
BEROk(ber, target) == 10 * ber <= 11 * target
EyeOk(eye) == eye >= EyeThreshold
ConvergedCheckOr(ber, eye, target) == BEROk(ber, target) \/ EyeOk(eye)
ConvergedCheck(ber, eye, target) == BEROk(ber, target) /\ EyeOk(eye)

TargetBERs == {0, 1000}
InitialBERs == {0, 1000}
InitialEyeMargins == {0, 9000}
LambdaCounts == {-1, 0}
Durations == {0}
AmbientProfiles == {"lab_default", "field_noise_high", "unknown"}

\* requests that name a number of lanes and leave the rest to the defaults
GivenLambdaCounts == {2}
SimulationRequest ==
    [TargetBER : TargetBERs, AmbientProfile : AmbientProfiles,
     LambdaCount : LambdaCounts, InitialBER : InitialBERs,
     InitialEyeMargin : InitialEyeMargins, Duration : Durations]
    \cup
    [TargetBER : {1000}, AmbientProfile : AmbientProfiles,
     LambdaCount : GivenLambdaCounts, InitialBER : {0},
     InitialEyeMargin : {0}, Duration : {0}]

NoSimRequest ==
    [TargetBER |-> 0, AmbientProfile |-> Null, LambdaCount |-> 0,
     InitialBER |-> 0, InitialEyeMargin |-> 0, Duration |-> 0]

\* lastCheck: the two conjuncts of the latest convergence check; tieBreaks: some
\* point of berProfile / eyeMarginProfile met exactly one of them
NoCheck == [berOk |-> FALSE, eyeOk |-> FALSE]

WithDefaultsButLanes(req) ==
    [req EXCEPT
       !.InitialBER = IF @ = 0 THEN DefaultInitialBER ELSE @,
       !.InitialEyeMargin = IF @ = 0 THEN DefaultInitialEyeMargin ELSE @,
       !.Duration = IF @ = 0 THEN DefaultDuration ELSE @]

\* a trace (temperatureProfile, berProfile, eyeMarginProfile) is kept by the
\* number of its points and the value of the latest one
NoPoints == [len |-> 0, last |-> 0]
appendPointStale(profile, x) ==
    [len |-> profile.len + 1, last |-> IF profile.len = 0 THEN x ELSE profile.last]
\* profile = append(profile, point)
appendPoint(profile, x) == [len |-> profile.len + 1, last |-> x]

\* Set defaults
WithDefaults(req) ==
    [req EXCEPT
       !.LambdaCount = IF @ = 0 THEN DefaultLambdaCount ELSE @,
       !.InitialBER = IF @ = 0 THEN DefaultInitialBER ELSE @,
       !.InitialEyeMargin = IF @ = 0 THEN DefaultInitialEyeMargin ELSE @,
       !.Duration = IF @ = 0 THEN DefaultDuration ELSE @]

\* Simulate, up to the loop: profile lookup, defaults, make() of the lane arrays
SimulateBegin ==
    /\ simPc = "idle"
    /\ \E raw \in SimulationRequest :
         LET req == WithDefaults(raw) IN
         /\ rawReq' = raw
         /\ simReq' = req
         /\ simResp' = Null
         /\ lastCheck' = NoCheck
         /\ tieBreaks' = FALSE
         /\ iterations' = 0
         /\ converged' = FALSE
         /\ berProfileMin' = 0
         /\ temperatureProfile' = NoPoints
         /\ berProfile' = NoPoints
         /\ eyeMarginProfile' = NoPoints
         /\ IF req.AmbientProfile \notin KnownProfiles
              THEN /\ simPc' = "error"
                   /\ laneCount' = 0
                   /\ currentBER' = 0
                   /\ currentEyeMargin' = 0
              ELSE IF req.LambdaCount < 0
              THEN \* make([]float64, n) with n < 0 panics
                   /\ simPc' = "panicked"
                   /\ laneCount' = 0
                   /\ currentBER' = req.InitialBER
                   /\ currentEyeMargin' = req.InitialEyeMargin
              ELSE /\ simPc' = "running"
                   /\ laneCount' = req.LambdaCount
                   /\ currentBER' = req.InitialBER
                   /\ currentEyeMargin' = req.InitialEyeMargin
    /\ UNCHANGED <<skelVars, ledgerVars, restVars>>

\* one pass of the loop body, i = iterations
SimulateIteration ==
    /\ simPc = "running"
    /\ iterations < MaxIterations
    /\ ~converged
    /\ \E r1 \in Centred, r2 \in Centred, r3 \in Centred, r4 \in Centred :
         LET i == iterations
             nl == ProfileNoise(simReq.AmbientProfile)
             target == simReq.TargetBER
             improvement == calculateImprovement(i, nl, r1)
             ber1 == target + (((currentBER - target) * improvement) \div 1000)
             ber2 == Max(ber1 + calculateBERNoise(i, simReq.Duration, nl, r2), MinBER)
             eyeImprovement == calculateEyeImprovement(i, nl, r3)
             eye1 == EyeTarget + (((currentEyeMargin - EyeTarget) * eyeImprovement) \div 1000)
             eye2 == Max(EyeLow, Min(EyeHigh,
                         eye1 + calculateEyeNoise(i, simReq.Duration, nl, r4)))
         IN  /\ iterations' = i + 1
             /\ currentBER' = ber2
             /\ berProfileMin' = IF i = 0 THEN ber2 ELSE Min(berProfileMin, ber2)
             /\ currentEyeMargin' = eye2
             /\ temperatureProfile' = appendPoint(temperatureProfile, 0)
             /\ berProfile' = appendPoint(berProfile, ber2)
             /\ eyeMarginProfile' = appendPoint(eyeMarginProfile, eye2)
             /\ lastCheck' = [berOk |-> BEROk(ber2, target), eyeOk |-> EyeOk(eye2)]
             /\ tieBreaks' = (tieBreaks \/ (BEROk(ber2, target) # EyeOk(eye2)))
             /\ converged' = ConvergedCheck(ber2, eye2, target)
    /\ UNCHANGED <<simPc, rawReq, simReq, laneCount, simResp, skelVars, ledgerVars, restVars>>

\* status := "converged"; if !converged { status = "partial_convergence" }
StatusAlwaysConverged(conv) == "converged"
StatusOf(conv) == IF conv THEN "converged" ELSE "partial_convergence"

\* after the loop: the response
SimulateReturn ==
    /\ simPc = "running"
    /\ converged \/ iterations >= MaxIterations
    /\ simPc' = "done"
    /\ simResp' = [Status |-> StatusOf(converged),
                   Converged |-> converged,
                   FinalBER |-> currentBER,
                   FinalEyeMargin |-> currentEyeMargin,
                   Iterations |-> iterations,
                   Lanes |-> laneCount,
                   TemperatureProfile |-> temperatureProfile,
                   BERProfile |-> berProfile,
                   EyeMarginProfile |-> eyeMarginProfile]
    /\ UNCHANGED <<rawReq, simReq, currentBER, currentEyeMargin, iterations, converged,
                   laneCount, lastCheck, tieBreaks, berProfileMin, temperatureProfile,
                   berProfile, eyeMarginProfile, skelVars, ledgerVars, restVars>>


(***************************************************************************)
(* memqosd: AllocationLedger, TierMigrator and QoSEnforcer.  Every action  *)
(* is one step taken under the ledger lock.                                *)
(***************************************************************************)
MaxAllocs == 2
HysteresisMin == 3
MaxAttempts == 5

Ids == 1 .. MaxAllocs
TierIndex(t) == CASE t = "T0" -> 0 [] t = "T1" -> 1 [] t = "T2" -> 2 [] OTHER -> 3

NoAlloc  == [tier |-> Null, bytes |-> 0, floor |-> 0, degraded |-> FALSE]
NoMig    == [src |-> Null, dst |-> Null, bytes |-> 0, floor |-> 0, by |-> Null]
NoRecord == [id |-> 0, src |-> Null, dst |-> Null, bytes |-> 0, outcome |-> Null]
NoResult == [op |-> Null, id |-> 0, result |-> Null]

AllocBytes  == {24}
AllocFloors == {100}
AllocTiers  == {"T0", "T2"}
MigrationTargets == {"T0", "T1"}
NewFloors   == {50, 100}
\* achieved bandwidth samples: below every floor, and no floor above it
Achieved == {40, 100}

Active(id) == ledger[id] # NoAlloc
InFlight(id) == mig[id] # NoMig

RECURSIVE SumOver(_, _)
SumOver(S, f) ==
    IF S = {} THEN 0
    ELSE LET x == CHOOSE y \in S : TRUE IN f[x] + SumOver(S \ {x}, f)

\* the destination reservations of the migrations in flight
ReservedBytes(t) == SumOver({i \in Ids : mig[i].dst = t}, [i \in Ids |-> mig[i].bytes])
ReservedBw(t)    == SumOver({i \in Ids : mig[i].dst = t}, [i \in Ids |-> mig[i].floor])

FreeBytes(t)  == TierCapacity[t] - usedBytes[t] - ReservedBytes(t)
BwHeadroom(t) == TierBandwidthCeiling[t] - committedBw[t] - ReservedBw(t)

\* the admission check of a tier
Admit(t, bytes, floor) ==
    IF bytes > FreeBytes(t) THEN "CAPACITY_EXCEEDED"
    ELSE IF floor > BwHeadroom(t) THEN "BANDWIDTH_INFEASIBLE"
    ELSE "OK"

\* Get(id), List(): a snapshot of the table
Get(id) == IF Active(id) THEN ledger[id] ELSE "NOT_FOUND"
List == {i \in Ids : Active(i)}

Allocate(bytes, tier, floor) ==
    /\ nextId <= MaxAllocs
    /\ LET r == Admit(tier, bytes, floor) IN
       IF r = "OK"
         THEN /\ ledger' = [ledger EXCEPT ![nextId] =
                     [tier |-> tier, bytes |-> bytes, floor |-> floor, degraded |-> FALSE]]
              /\ usedBytes' = [usedBytes EXCEPT ![tier] = @ + bytes]
              /\ committedBw' = [committedBw EXCEPT ![tier] = @ + floor]
              /\ nextId' = nextId + 1
              /\ lastResult' = [op |-> "allocate", id |-> nextId, result |-> "OK"]
         ELSE /\ lastResult' = [op |-> "allocate", id |-> 0, result |-> r]
              /\ UNCHANGED <<ledger, usedBytes, committedBw, nextId>>
    /\ UNCHANGED <<mig, records, violations, attempts, intent, skelVars, helioVars, restVars>>

\* the same admission check, leaving out the allocation's own prior floor; a
\* migrating allocation's floor is also held in its destination reservation
AdjustBandwidthFloor(id, newFloor) ==
    /\ IF ~Active(id)
         THEN /\ lastResult' = [op |-> "adjust", id |-> id, result |-> "NOT_FOUND"]
              /\ UNCHANGED <<ledger, committedBw, mig>>
         ELSE LET a == ledger[id]
                  fits == /\ newFloor - a.floor <= BwHeadroom(a.tier)
                          /\ InFlight(id) => newFloor - a.floor <= BwHeadroom(mig[id].dst)
              IN  IF fits
                    THEN /\ ledger' = [ledger EXCEPT ![id].floor = newFloor]
                         /\ committedBw' = [committedBw EXCEPT ![a.tier] = @ - a.floor + newFloor]
                         /\ mig' = IF InFlight(id) THEN [mig EXCEPT ![id].floor = newFloor]
                                   ELSE mig
                         /\ lastResult' = [op |-> "adjust", id |-> id, result |-> "OK"]
                    ELSE /\ lastResult' = [op |-> "adjust", id |-> id,
                                           result |-> "BANDWIDTH_INFEASIBLE"]
                         /\ UNCHANGED <<ledger, committedBw, mig>>
    /\ UNCHANGED <<usedBytes, nextId, records, violations, attempts, intent,
                   skelVars, helioVars, restVars>>

ReleaseKeepsEntry(id) ==
    /\ IF ~Active(id)
         THEN /\ lastResult' = [op |-> "release", id |-> id, result |-> "NOT_FOUND"]
              /\ UNCHANGED <<ledger, usedBytes, committedBw, mig, records,
                             violations, attempts, intent>>
         ELSE LET a == ledger[id] IN
              /\ ledger' = ledger
              /\ usedBytes' = [usedBytes EXCEPT ![a.tier] = @ - a.bytes]
              /\ committedBw' = [committedBw EXCEPT ![a.tier] = @ - a.floor]
              /\ mig' = [mig EXCEPT ![id] = NoMig]
              /\ records' = IF InFlight(id)
                              THEN [id |-> id, src |-> mig[id].src, dst |-> mig[id].dst, bytes |-> 0, outcome |-> "aborted"]
                              ELSE records
              /\ violations' = [violations EXCEPT ![id] = 0]
              /\ attempts' = [attempts EXCEPT ![id] = 0]
              /\ intent' = [intent EXCEPT ![id] = Null]
              /\ lastResult' = [op |-> "release", id |-> id, result |-> "OK"]
    /\ UNCHANGED <<nextId, skelVars, helioVars, restVars>>

\* Release frees the bytes and the floor at once; a migration of the allocation
\* still in flight is aborted and its reservation dropped
Release(id) ==
    /\ IF ~Active(id)
         THEN /\ lastResult' = [op |-> "release", id |-> id, result |-> "NOT_FOUND"]
              /\ UNCHANGED <<ledger, usedBytes, committedBw, mig, records,
                             violations, attempts, intent>>
         ELSE LET a == ledger[id] IN
              /\ ledger' = [ledger EXCEPT ![id] = NoAlloc]
              /\ usedBytes' = [usedBytes EXCEPT ![a.tier] = @ - a.bytes]
              /\ committedBw' = [committedBw EXCEPT ![a.tier] = @ - a.floor]
              /\ mig' = [mig EXCEPT ![id] = NoMig]
              /\ records' = IF InFlight(id)
                              THEN [id |-> id, src |-> mig[id].src, dst |-> mig[id].dst, bytes |-> 0, outcome |-> "aborted"]
                              ELSE records
              /\ violations' = [violations EXCEPT ![id] = 0]
              /\ attempts' = [attempts EXCEPT ![id] = 0]
              /\ intent' = [intent EXCEPT ![id] = Null]
              /\ lastResult' = [op |-> "release", id |-> id, result |-> "OK"]
    /\ UNCHANGED <<nextId, skelVars, helioVars, restVars>>

MigrateCheckNoLock(id, target) ==
    IF ~Active(id) THEN "NOT_FOUND"
    ELSE IF Admit(target, ledger[id].bytes, ledger[id].floor) # "OK"
      THEN "CAPACITY_EXCEEDED"
    ELSE "OK"

\* Migrate, steps (1) and (2): the per-allocation migration lock, then the
\* reservation in the destination tier
MigrateCheck(id, target) ==
    IF InFlight(id) THEN "MIGRATION_IN_PROGRESS"
    ELSE IF ~Active(id) THEN "NOT_FOUND"
    ELSE IF Admit(target, ledger[id].bytes, ledger[id].floor) # "OK"
      THEN "CAPACITY_EXCEEDED"
    ELSE "OK"

FailedAttemptForever(id, led) ==
    /\ attempts' = [attempts EXCEPT ![id] = @ + 1]
    /\ ledger' = led
    /\ intent' = intent

\* a failed attempt of the enforcer: counted, and after MaxAttempts the
\* allocation is marked degraded and the intent given up
FailedAttempt(id, led) ==
    /\ attempts' = [attempts EXCEPT ![id] = @ + 1]
    /\ IF attempts[id] + 1 >= MaxAttempts
         THEN /\ ledger' = [led EXCEPT ![id].degraded = TRUE]
              /\ intent' = [intent EXCEPT ![id] = Null]
         ELSE /\ ledger' = led
              /\ intent' = intent

MigrateStart(id, target, by) ==
    [src |-> ledger[id].tier, dst |-> target, bytes |-> ledger[id].bytes,
     floor |-> ledger[id].floor, by |-> by]

\* RequestTierMigration from a client
RequestTierMigration(id, target) ==
    /\ LET r == MigrateCheck(id, target) IN
       /\ lastResult' = [op |-> "migrate", id |-> id, result |-> r]
       /\ mig' = IF r = "OK" THEN [mig EXCEPT ![id] = MigrateStart(id, target, "client")]
                 ELSE mig
       /\ records' = IF r = "CAPACITY_EXCEEDED"
                       THEN [id |-> id, src |-> ledger[id].tier, dst |-> target, bytes |-> 0, outcome |-> "aborted"]
                       ELSE records
    /\ UNCHANGED <<ledger, nextId, usedBytes, committedBw, violations, attempts,
                   intent, skelVars, helioVars, restVars>>

\* the migrator takes up a pending intent of the enforcer (an attempt)
MigrateIntent(id) ==
    /\ intent[id] # Null
    /\ ~(InFlight(id) /\ mig[id].by = "enforcer")
    /\ LET r == MigrateCheck(id, intent[id]) IN
       IF r = "OK"
         THEN /\ mig' = [mig EXCEPT ![id] = MigrateStart(id, intent[id], "enforcer")]
              /\ UNCHANGED <<ledger, records, attempts, intent>>
         ELSE /\ mig' = mig
              /\ records' = IF r = "CAPACITY_EXCEEDED"
                              THEN [id |-> id, src |-> ledger[id].tier, dst |-> intent[id], bytes |-> 0, outcome |-> "aborted"]
                              ELSE records
              /\ FailedAttempt(id, ledger)
    /\ UNCHANGED <<nextId, usedBytes, committedBw, violations, lastResult,
                   skelVars, helioVars, restVars>>

MigrateCommitKeepsSource(id) ==
    /\ InFlight(id)
    /\ LET m == mig[id]
           a == ledger[id]
       IN  /\ ledger' = [ledger EXCEPT ![id].tier = m.dst]
           /\ usedBytes' = [usedBytes EXCEPT ![m.dst] = @ + a.bytes]
           /\ committedBw' = [committedBw EXCEPT ![m.src] = @ - a.floor,
                                                 ![m.dst] = @ + a.floor]
           /\ records' = [id |-> id, src |-> m.src, dst |-> m.dst, bytes |-> a.bytes, outcome |-> "completed"]
           /\ mig' = [mig EXCEPT ![id] = NoMig]
           /\ IF m.by = "enforcer"
                THEN /\ intent' = [intent EXCEPT ![id] = Null]
                     /\ attempts' = [attempts EXCEPT ![id] = 0]
                     /\ violations' = [violations EXCEPT ![id] = 0]
                ELSE UNCHANGED <<intent, attempts, violations>>
    /\ UNCHANGED <<nextId, lastResult, skelVars, helioVars, restVars>>

\* Migrate, steps (3) and (4), success: the tier field flips and the source
\* tier's share is released, in one step
MigrateCommit(id) ==
    /\ InFlight(id)
    /\ LET m == mig[id]
           a == ledger[id]
       IN  /\ ledger' = [ledger EXCEPT ![id].tier = m.dst]
           /\ usedBytes' = [usedBytes EXCEPT ![m.src] = @ - a.bytes, ![m.dst] = @ + a.bytes]
           /\ committedBw' = [committedBw EXCEPT ![m.src] = @ - a.floor,
                                                 ![m.dst] = @ + a.floor]
           /\ records' = [id |-> id, src |-> m.src, dst |-> m.dst, bytes |-> a.bytes, outcome |-> "completed"]
           /\ mig' = [mig EXCEPT ![id] = NoMig]
           /\ IF m.by = "enforcer"
                THEN /\ intent' = [intent EXCEPT ![id] = Null]
                     /\ attempts' = [attempts EXCEPT ![id] = 0]
                     /\ violations' = [violations EXCEPT ![id] = 0]
                ELSE UNCHANGED <<intent, attempts, violations>>
    /\ UNCHANGED <<nextId, lastResult, skelVars, helioVars, restVars>>

\* Migrate, failure after the reservation: the reservation is dropped and the
\* allocation stays in its source tier
MigrateAbort(id) ==
    /\ InFlight(id)
    /\ LET m == mig[id] IN
       /\ records' = [id |-> id, src |-> m.src, dst |-> m.dst, bytes |-> 0, outcome |-> "aborted"]
       /\ mig' = [mig EXCEPT ![id] = NoMig]
       /\ IF m.by = "enforcer"
            THEN FailedAttempt(id, ledger)
            ELSE UNCHANGED <<ledger, attempts, intent>>
    /\ UNCHANGED <<nextId, usedBytes, committedBw, violations, lastResult,
                   skelVars, helioVars, restVars>>

\* the smallest tier upgrade that can admit the allocation, or Null
Upgrades(id) ==
    {t \in Tiers : /\ TierIndex(t) < TierIndex(ledger[id].tier)
                   /\ Admit(t, ledger[id].bytes, ledger[id].floor) = "OK"}
BestUpgrade(id) ==
    IF Upgrades(id) = {} THEN Null
    ELSE CHOOSE t \in Upgrades(id) : \A u \in Upgrades(id) : TierIndex(u) <= TierIndex(t)

Violating(id, sample) == sample < ledger[id].floor
CountSample(id, sample) ==
    IF Violating(id, sample) THEN Min(violations[id] + 1, HysteresisMin) ELSE 0
DueEarly(id, sample) ==
    /\ CountSample(id, sample) >= HysteresisMin - 1
    /\ intent[id] = Null
    /\ ~InFlight(id)
    /\ ~ledger[id].degraded
Due(id, sample) ==
    /\ CountSample(id, sample) >= HysteresisMin
    /\ intent[id] = Null
    /\ ~InFlight(id)
    /\ ~ledger[id].degraded

\* one tick of the QoSEnforcer: a sample of every active allocation
EnforcerTick ==
    /\ List # {}
    /\ \E sample \in [List -> Achieved] :
         /\ violations' = [i \in Ids |->
                 IF Active(i) THEN CountSample(i, sample[i]) ELSE violations[i]]
         /\ intent' = [i \in Ids |->
                 IF Active(i) /\ Due(i, sample[i]) THEN BestUpgrade(i) ELSE intent[i]]
         /\ attempts' = [i \in Ids |->
                 IF Active(i) /\ Due(i, sample[i]) THEN 0 ELSE attempts[i]]
         /\ ledger' = [i \in Ids |->
                 IF Active(i) /\ Due(i, sample[i]) /\ BestUpgrade(i) = Null
                   THEN [ledger[i] EXCEPT !.degraded = TRUE]
                   ELSE ledger[i]]
    /\ UNCHANGED <<nextId, usedBytes, committedBw, mig, records, lastResult,
                   skelVars, helioVars, restVars>>

(***************************************************************************)
(* The HELIOPASS HTTP server.  net/http serves every request on a          *)
(* goroutine of its own; handleSimulate decodes the body and calls         *)
(* Simulate, which holds no lock and no per-corridor state.                *)
(***************************************************************************)
MaxHandlers == 2
Handlers == 1 .. MaxHandlers
CorridorIDs == {"cor-a", "cor-b"}

NoRun == [pc |-> "idle", corridor |-> Null, iterations |-> 0, converged |-> FALSE,
          status |-> 0]

\* handleSimulate, up to the call of Simulate: a body that does not decode is
\* answered 400, an unknown profile 500
handleSimulate(h) ==
    /\ runs[h].pc = "idle"
    /\ simulator' = simulator
    /\ \E c \in CorridorIDs, outcome \in {"run", "badBody", "unknownProfile"} :
         runs' = [runs EXCEPT ![h] =
                    CASE outcome = "run" ->
                           [pc |-> "running", corridor |-> c, iterations |-> 0,
                            converged |-> FALSE, status |-> 0]
                      [] outcome = "badBody" ->
                           [pc |-> "answered", corridor |-> Null, iterations |-> 0,
                            converged |-> FALSE, status |-> 400]
                      [] OTHER ->
                           [pc |-> "answered", corridor |-> c, iterations |-> 0,
                            converged |-> FALSE, status |-> 500]]
    /\ UNCHANGED <<skelVars, helioVars, ledgerVars, moreVars, laneVars, syncVars>>

\* the loop counter and the flag as fields every goroutine writes
loopPassShared(rs, h, conv) ==
    [g \in Handlers |->
        IF rs[g].pc = "running"
          THEN [rs[g] EXCEPT !.iterations = rs[h].iterations + 1, !.converged = conv]
          ELSE rs[g]]

\* one pass of the loop: iterations and converged are locals of the call
loopPass(rs, h, conv) ==
    [rs EXCEPT ![h].iterations = @ + 1, ![h].converged = conv]

\* one pass of the loop of Simulate on the goroutine of request h; the
\* simulator is read (h.MaxIterations), never written
simulateStep(h) ==
    /\ runs[h].pc = "running"
    /\ ~runs[h].converged
    /\ runs[h].iterations < simulator.MaxIterations
    /\ \E conv \in BOOLEAN : runs' = loopPass(runs, h, conv)
    /\ simulator' = simulator
    /\ UNCHANGED <<skelVars, helioVars, ledgerVars, moreVars, laneVars, syncVars>>

\* Simulate returns and handleSimulate encodes the response
handleSimulateReply(h) ==
    /\ runs[h].pc = "running"
    /\ runs[h].converged \/ runs[h].iterations >= simulator.MaxIterations
    /\ runs' = [runs EXCEPT ![h].pc = "answered", ![h].status = 200]
    /\ simulator' = simulator
    /\ UNCHANGED <<skelVars, helioVars, ledgerVars, moreVars, laneVars, syncVars>>

\* the connection is done; the goroutine serves the next request
handlerDone(h) ==
    /\ runs[h].pc = "answered"
    /\ runs' = [runs EXCEPT ![h] = NoRun]
    /\ simulator' = simulator
    /\ UNCHANGED <<skelVars, helioVars, ledgerVars, moreVars, laneVars, syncVars>>

(***************************************************************************)
(* HELIOPASS Simulate: the bias voltages, wavelength shifts and laser      *)
(* power adjustments of the lanes.  The loop body is taken in its three    *)
(* groups of statements: the BER and eye-margin computation, the update of *)
(* the lanes, the convergence check.  The outcome of the check is any of   *)
(* the two (the BER side of the loop is SpecHelio).                        *)
(*   bias voltage in mV, wavelength shift in 1e-5 nm, power in 1e-3 dB,    *)
(*   power savings in 1e-3 percent                                         *)
(***************************************************************************)
BaseTemperature == 22
BiasNominal == 1200
BiasLow == 800
BiasHigh == 1500
ShiftLimit == 10000
PowerLimit == 2000
SavingsCap == 20000

\* GetAmbientProfiles: Temperature in C, DriftRate in 1/10000
ProfileTemperature(p) ==
    CASE p = "lab_default" -> 22
      [] p = "field_noise_low" -> 25
      [] p = "field_noise_high" -> 30
      [] p = "datacenter" -> 24
      [] p = "space_sim" -> -50
ProfileDriftRate(p) ==
    CASE p = "lab_default" -> 10
      [] p = "field_noise_low" -> 100
      [] p = "field_noise_high" -> 1000
      [] p = "datacenter" -> 50
      [] p = "space_sim" -> 1

Clamp(lo, hi, x) == Max(lo, Min(hi, x))
NoClampBias(lo, hi, x) == x
NoClampSavings(lo, hi, x) == x
ClampBias(lo, hi, x) == Clamp(lo, hi, x)
ClampSavings(lo, hi, x) == Clamp(lo, hi, x)

\* the initial value of a lane: 1.2 + (rand-0.5)*0.2, (rand-0.5)*0.02, (rand-0.5)*0.5
initBiasVoltage(r) == BiasNominal + ((r * 200) \div 1000)
initLambdaShift(r) == r * 2
initLaserPower(r) == r \div 2

\* updateBiasVoltages, updateLambdaShifts, updateLaserPower: one element, in
\* iteration i (time = i * Duration / MaxIterations)
updateBiasVoltage(v, i, duration, p, r) ==
    LET tempFactor == 1000 + (ProfileTemperature(p) - BaseTemperature)
        driftFactor == 100000 + ((Sin((i * duration * 4) \div 10) * ProfileDriftRate(p)) \div 1000)
        randomAdjust == (r * 10) \div 1000
    IN  ClampBias(BiasLow, BiasHigh,
                  ((((v * tempFactor) \div 1000) * driftFactor) \div 100000) + randomAdjust)

updateLambdaShift(x, i, duration, p, r) ==
    LET drift == (Sin((i * duration * 3) \div 10) * ProfileDriftRate(p)) \div 10000
        randomAdjust == r \div 10
    IN  Clamp(0 - ShiftLimit, ShiftLimit, x + drift + randomAdjust)

updateLaserPowerAdjust(x, i, p, r) ==
    LET tempFactor == 10000 + ((ProfileTemperature(p) - BaseTemperature) * 5)
        randomAdjust == r \div 10
    IN  Clamp(0 - PowerLimit, PowerLimit, ((x * tempFactor) \div 10000) + randomAdjust)

\* calculatePowerSavings: the two accumulation loops
RECURSIVE voltageSavingsSum(_)
voltageSavingsSum(bias) ==
    IF bias = <<>> THEN 0
    ELSE ((BiasNominal - Head(bias)) * 10) + voltageSavingsSum(Tail(bias))

RECURSIVE laserSavingsSum(_)
laserSavingsSum(power) ==
    IF power = <<>> THEN 0
    ELSE (IF Head(power) < 0 THEN (0 - Head(power)) * 5 ELSE 0)
         + laserSavingsSum(Tail(power))

\* savings counted for every adjustment, whatever its sign
calculatePowerSavingsAnySign(bias, power) ==
    LET abs(x) == IF x < 0 THEN 0 - x ELSE x
        sum == abs(power[1]) * 5 + (IF Len(power) > 1 THEN abs(power[2]) * 5 ELSE 0)
    IN  ClampSavings(0, SavingsCap, (voltageSavingsSum(bias) \div Len(bias)) + (sum \div Len(power)))

\* calculatePowerSavings (the arrays of a run hold LambdaCount >= 1 lanes)
calculatePowerSavings(bias, power) ==
    LET voltageSavings == voltageSavingsSum(bias) \div Len(bias)
        laserSavings == laserSavingsSum(power) \div Len(power)
    IN  ClampSavings(0, SavingsCap, voltageSavings + laserSavings)

LaneProfiles == {"field_noise_high", "space_sim"}
LaneLambdaCounts == {1}
LaneRequest == [AmbientProfile : LaneProfiles, LambdaCount : LaneLambdaCounts,
                Duration : {DefaultDuration}]
NoLaneRequest == [AmbientProfile |-> Null, LambdaCount |-> 0, Duration |-> 0]
\* the draws of rand.Float64() - 0.5 of a run: those made for one of the three
\* arrays take either end of the range in every round, those made for the other
\* two arrays stay at one end
LaneArrays == {"bias", "shift", "power"}
NoiseClass == [array : LaneArrays, rest : Centred]
NoNoise == [array |-> Null, rest |-> 0]
DrawsFor(nz, k) == IF nz.array = k THEN Centred ELSE {nz.rest}
LaneDraws(nz, n) ==
    [1 .. n -> (DrawsFor(nz, "bias") \X DrawsFor(nz, "shift") \X DrawsFor(nz, "power"))]

\* Simulate, up to the loop: make() of the lane arrays and their initial values
LanesBegin ==
    /\ lanePc = "idle"
    /\ \E req \in LaneRequest :
       \E nz \in NoiseClass : \E r \in LaneDraws(nz, req.LambdaCount) :
         /\ laneReq' = req
         /\ noise' = nz
         /\ biasVoltages' = [l \in 1 .. req.LambdaCount |-> initBiasVoltage(r[l][1])]
         /\ lambdaShifts' = [l \in 1 .. req.LambdaCount |-> initLambdaShift(r[l][2])]
         /\ laserPowerAdjust' = [l \in 1 .. req.LambdaCount |-> initLaserPower(r[l][3])]
    /\ lanePc' = "measure"
    /\ laneIterations' = 0
    /\ laneConverged' = FALSE
    /\ checkOk' = FALSE
    /\ applied' = 0
    /\ measuredAt' = 0
    /\ laneResp' = Null
    /\ UNCHANGED <<skelVars, helioVars, ledgerVars, moreVars, srvVars, syncVars>>

\* loop body, first group: iterations++, currentBER and currentEyeMargin of this
\* iteration are computed; checkOk is what the convergence check will find in them
LoopMeasure ==
    /\ lanePc = "measure"
    /\ laneIterations' = laneIterations + 1
    /\ \E ok \in BOOLEAN : checkOk' = ok
    /\ measuredAt' = applied
    /\ lanePc' = "apply"
    /\ UNCHANGED <<laneReq, noise, biasVoltages, lambdaShifts, laserPowerAdjust,
                   laneConverged, applied, laneResp,
                   skelVars, helioVars, ledgerVars, moreVars, srvVars, syncVars>>

\* loop body, second group: the three update calls, i = laneIterations - 1
LoopApply ==
    /\ lanePc = "apply"
    /\ LET n == laneReq.LambdaCount
           i == laneIterations - 1
           d == laneReq.Duration
           p == laneReq.AmbientProfile
       IN  \E r \in LaneDraws(noise, n) :
             /\ biasVoltages' =
                   [l \in 1 .. n |-> updateBiasVoltage(biasVoltages[l], i, d, p, r[l][1])]
             /\ lambdaShifts' =
                   [l \in 1 .. n |-> updateLambdaShift(lambdaShifts[l], i, d, p, r[l][2])]
             /\ laserPowerAdjust' =
                   [l \in 1 .. n |-> updateLaserPowerAdjust(laserPowerAdjust[l], i, p, r[l][3])]
    /\ applied' = applied + 1
    /\ lanePc' = "verify"
    /\ UNCHANGED <<laneReq, noise, laneIterations, laneConverged, checkOk, measuredAt, laneResp,
                   skelVars, helioVars, ledgerVars, moreVars, srvVars, syncVars>>

\* loop body, third group: the convergence check and the loop condition
LoopVerify ==
    /\ lanePc = "verify"
    /\ laneConverged' = checkOk
    /\ lanePc' = IF checkOk \/ laneIterations >= MaxIterations THEN "return" ELSE "measure"
    /\ UNCHANGED <<laneReq, noise, biasVoltages, lambdaShifts, laserPowerAdjust,
                   laneIterations, checkOk, applied, measuredAt, laneResp,
                   skelVars, helioVars, ledgerVars, moreVars, srvVars, syncVars>>

\* after the loop: the response
LanesReturn ==
    /\ lanePc = "return"
    /\ laneResp' = [Converged |-> laneConverged,
                    Iterations |-> laneIterations,
                    BiasVoltages |-> biasVoltages,
                    LambdaShifts |-> lambdaShifts,
                    LaserPowerAdjust |-> laserPowerAdjust,
                    PowerSavings |-> calculatePowerSavings(biasVoltages, laserPowerAdjust)]
    /\ lanePc' = "done"
    /\ UNCHANGED <<laneReq, noise, biasVoltages, lambdaShifts, laserPowerAdjust,
                   laneIterations, laneConverged, checkOk, applied, measuredAt,
                   skelVars, helioVars, ledgerVars, moreVars, srvVars, syncVars>>

(***************************************************************************)
(* synchrony-analytics (labs/synchrony-analytics/main.go): the session     *)
(* store of Service.  Every handler body that touches the store runs under *)
(* s.mu; a series is kept by its pseudonym (its samples play no part in    *)
(* the store).  A session is keyed by the hash of its manifest.            *)
(***************************************************************************)
MaxSyncRequests == 3

Pseudonyms == {"p1", "p2", "p3"}
Participant == [Pseudonym : Pseudonyms, Consent : BOOLEAN]
ParticipantLists ==
    {<<>>,
     <<[Pseudonym |-> "p1", Consent |-> TRUE]>>,
     <<[Pseudonym |-> "p1", Consent |-> TRUE], [Pseudonym |-> "p2", Consent |-> FALSE]>>}
CaptureModes == {"offline", "Offline", "realtime"}
ConsentManifest ==
    [WomenLed : BOOLEAN, DataMinimization : BOOLEAN,
     CaptureMode : CaptureModes, Participants : ParticipantLists]
NoManifest == [WomenLed |-> FALSE, DataMinimization |-> FALSE,
               CaptureMode |-> Null, Participants |-> <<>>]

\* strings.ToLower on the capture modes considered
ToLower(str) == IF str = "Offline" THEN "offline" ELSE str

\* "sync-" + manifestHash[:8]: the hash of the marshalled manifest, taken to be
\* distinct for distinct manifests
SessionID(m) == <<"sync", m>>
UnknownID == <<"sync", NoManifest>>

StreamNames == {"breath", "rr"}
RequestedStreams == {"breath", "rr", "video"}
SeriesLists == {<<"p1">>, <<"p3">>, <<"p1", "p2">>}
NoStreams == [st \in StreamNames |-> <<>>]

\* s.sessions, a map: the set of its entries; sessions[id] and "id is a key"
Lookup(id) == CHOOSE x \in sessions : x.ID = id
Stored(id) == \E x \in sessions : x.ID = id
StoredIDs == {x.ID : x \in sessions}
\* s.sessions[id] = sess
Put(sess) == {x \in sessions : x.ID # sess.ID} \cup {sess}
NoExchange == [op |-> Null, manifest |-> NoManifest, id |-> UnknownID,
               stream |-> Null, series |-> <<>>, status |-> 0]

startStatusNoConsentLoop(decodes, m) ==
    IF ~decodes THEN 400
    ELSE IF ~m.WomenLed THEN 403
    ELSE IF ~m.DataMinimization THEN 403
    ELSE IF ToLower(m.CaptureMode) # "offline" THEN 403
    ELSE 201

\* handleStartSession: the four governance checks, in order
startStatus(decodes, m) ==
    IF ~decodes THEN 400
    ELSE IF ~m.WomenLed THEN 403
    ELSE IF ~m.DataMinimization THEN 403
    ELSE IF ToLower(m.CaptureMode) # "offline" THEN 403
    ELSE IF \E k \in 1 .. Len(m.Participants) : ~m.Participants[k].Consent THEN 403
    ELSE 201

handleStartSession ==
    /\ syncCount < MaxSyncRequests
    /\ \E decodes \in BOOLEAN, m \in ConsentManifest :
         LET st == startStatus(decodes, m) IN
         /\ sessions' = IF st = 201
                          THEN Put([ID |-> SessionID(m), Manifest |-> m,
                                    Streams |-> NoStreams])
                          ELSE sessions
         /\ syncLast' = [NoExchange EXCEPT !.op = "start", !.status = st,
                           !.manifest = IF decodes THEN m ELSE NoManifest,
                           !.id = IF st = 201 THEN SessionID(m) ELSE UnknownID]
    /\ syncCount' = syncCount + 1
    /\ UNCHANGED <<skelVars, helioVars, ledgerVars, moreVars, srvVars, laneVars>>

\* handleIngest: what the request is answered with
ingestStatus(id, decodes, stream) ==
    IF ~decodes THEN 400
    ELSE IF stream \notin StreamNames THEN 400
    ELSE IF ~Stored(id) THEN 404
    ELSE 202

handleIngest ==
    /\ syncCount < MaxSyncRequests
    /\ \E id \in StoredIDs \cup {UnknownID}, decodes \in BOOLEAN,
          stream \in RequestedStreams, series \in SeriesLists :
         LET st == ingestStatus(id, decodes, stream) IN
         /\ sessions' = IF st = 202
                          THEN Put([Lookup(id) EXCEPT !.Streams[stream] =
                                      @ \o series])
                          ELSE sessions
         /\ syncLast' = [NoExchange EXCEPT !.op = "ingest", !.status = st, !.id = id,
                           !.stream = stream,
                           !.series = IF decodes THEN series ELSE <<>>]
    /\ syncCount' = syncCount + 1
    /\ UNCHANGED <<skelVars, helioVars, ledgerVars, moreVars, srvVars, laneVars>>

\* handleMetrics: reads the store; 404 for an unknown session, 400 for fewer than
\* two series or too little overlap, else 200
handleMetrics ==
    /\ syncCount < MaxSyncRequests
    /\ \E id \in StoredIDs \cup {UnknownID}, stream \in StreamNames, overlap \in BOOLEAN :
         LET st == IF ~Stored(id) THEN 404
                   ELSE IF Len(Lookup(id).Streams[stream]) < 2 THEN 400
                   ELSE IF ~overlap THEN 400
                   ELSE 200
         IN  syncLast' = [NoExchange EXCEPT !.op = "metrics", !.status = st, !.id = id,
                            !.stream = stream]
    /\ syncCount' = syncCount + 1
    /\ UNCHANGED <<sessions, skelVars, helioVars, ledgerVars, moreVars, srvVars, laneVars>>

(***************************************************************************)
(* calculatePowerSavings as a function of the settings: it is applied to a *)
(* setting of two lanes, then to the setting with one lane's bias voltage  *)
(* or one lane's laser power adjustment lowered.                           *)
(***************************************************************************)
SavLanes == 1 .. 2
SavBias == {BiasLow, 1000, BiasNominal, 1300, BiasHigh}
SavPower == {0 - PowerLimit, -500, 0, 500, PowerLimit}
Settings == [bias : [SavLanes -> SavBias], power : [SavLanes -> SavPower]]
\* the arrays of a setting, as sequences
AsArray(f) == [k \in 1 .. 2 |-> f[k]]
savingsOf(st) == calculatePowerSavings(AsArray(st.bias), AsArray(st.power))
NominalSetting == [bias |-> [k \in SavLanes |-> BiasNominal], power |-> [k \in SavLanes |-> 0]]

\* a setting is given and its savings computed
chooseSettings ==
    /\ \E st \in Settings :
         /\ savIn' = st
         /\ savOut' = savingsOf(st)
         /\ savPrev' = [in |-> st, out |-> savingsOf(st)]
    /\ UNCHANGED exceptSav

\* one lane's bias voltage is lowered and the savings computed again
lowerBias ==
    /\ \E k \in SavLanes, v \in SavBias :
         /\ v < savIn.bias[k]
         /\ savIn' = [savIn EXCEPT !.bias[k] = v]
         /\ savOut' = savingsOf([savIn EXCEPT !.bias[k] = v])
    /\ savPrev' = [in |-> savIn, out |-> savOut]
    /\ UNCHANGED exceptSav

\* one lane's laser power adjustment is lowered and the savings computed again
lowerPower ==
    /\ \E k \in SavLanes, x \in SavPower :
         /\ x < savIn.power[k]
         /\ savIn' = [savIn EXCEPT !.power[k] = x]
         /\ savOut' = savingsOf([savIn EXCEPT !.power[k] = x])
    /\ savPrev' = [in |-> savIn, out |-> savOut]
    /\ UNCHANGED exceptSav

(***************************************************************************)
(* MemoryMesh (the free-form memory mesh emulator).  JavaScript runs every *)
(* method and every timer callback to completion, one at a time.  Sizes    *)
(* are in units of 256 MiB; lease and buffer ids are taken to be distinct  *)
(* (generateLeaseId, generateBufferId).  released[id] counts the times the *)
(* size of id was subtracted from usedMemory, returned[id] the times       *)
(* consumeBuffer handed out the data of id.                                *)
(***************************************************************************)
MaxMeshIds == 3
MaxNow == 2
MaxMonitors == 2
\* 1 GiB, and 2^32, the length from which new Array(size) throws RangeError
TotalMemory == 4
ArrayLengthLimit == 16

MeshIds == 1 .. MaxMeshIds
MeshSizes == {2, ArrayLengthLimit}
LeaseDurations == {1}
NoLease == [stored |-> FALSE, size |-> 0, endTime |-> 0]
NoBuffer == [stored |-> FALSE, size |-> 0, consumed |-> FALSE]
NoCall == [op |-> Null, id |-> 0, fits |-> FALSE, result |-> Null, at |-> 0]

\* canAllocate
canAllocate(used, size) == used + size <= totalMemory

consumedCheckNone(buffer) == FALSE
\* if (buffer.consumed) return null
consumedCheck(buffer) == buffer.consumed

\* allocateOpticalLease / allocateQuantumLease on the map `leases`
allocateLease(op, leases, others, size, duration) ==
    LET leaseId == nextMeshId
        ok == canAllocate(usedMemory, size)
    IN  /\ nextMeshId <= MaxMeshIds
        /\ nextMeshId' = nextMeshId + 1
        /\ leases' = IF ok
                       THEN [leases EXCEPT ![leaseId] =
                               [stored |-> TRUE, size |-> size,
                                endTime |-> meshNow + duration]]
                       ELSE leases
        /\ usedMemory' = IF ok THEN usedMemory + size ELSE usedMemory
        /\ meshLast' = [NoCall EXCEPT !.op = op,
                          !.fits = (usedMemory + size <= totalMemory),
                          !.result = IF ok THEN "id" ELSE "null"]
        /\ UNCHANGED <<totalMemory, others, buffers, updateInterval, deleteTimers, meshNow,
                       released, returned>>

allocateOpticalLease ==
    /\ \E size \in MeshSizes, duration \in LeaseDurations :
         allocateLease("allocateOpticalLease", opticalLeases, quantumLeases, size, duration)
    /\ UNCHANGED exceptMesh

allocateQuantumLease ==
    /\ \E size \in MeshSizes, duration \in LeaseDurations :
         allocateLease("allocateQuantumLease", quantumLeases, opticalLeases, size, duration)
    /\ UNCHANGED exceptMesh

\* createBuffer: the data array is made before canAllocate is asked
createBuffer ==
    /\ nextMeshId <= MaxMeshIds
    /\ nextMeshId' = nextMeshId + 1
    /\ \E size \in MeshSizes :
         LET bufferId == nextMeshId
             thrown == size >= ArrayLengthLimit
             ok == ~thrown /\ canAllocate(usedMemory, size)
         IN  /\ buffers' = IF ok
                             THEN [buffers EXCEPT ![bufferId] =
                                     [stored |-> TRUE, size |-> size, consumed |-> FALSE]]
                             ELSE buffers
             /\ usedMemory' = IF ok THEN usedMemory + size ELSE usedMemory
             /\ meshLast' = [NoCall EXCEPT !.op = "createBuffer",
                               !.fits = (usedMemory + size <= totalMemory),
                               !.result = IF thrown THEN "RangeError"
                                          ELSE IF ok THEN "id" ELSE "null"]
    /\ UNCHANGED <<totalMemory, opticalLeases, quantumLeases, updateInterval, deleteTimers,
                   meshNow, released, returned>>
    /\ UNCHANGED exceptMesh

\* consumeBuffer: not found, already consumed, or consumed now (the delete of
\* the entry is left to a timer)
consumeBuffer ==
    /\ \E bufferId \in MeshIds :
         LET buffer == buffers[bufferId]
             ok == buffer.stored /\ ~consumedCheck(buffer)
         IN  /\ buffers' = IF ok THEN [buffers EXCEPT ![bufferId].consumed = TRUE]
                                 ELSE buffers
             /\ usedMemory' = IF ok THEN usedMemory - buffer.size ELSE usedMemory
             /\ deleteTimers' = IF ok THEN deleteTimers \cup {bufferId} ELSE deleteTimers
             /\ released' = IF ok THEN [released EXCEPT ![bufferId] = @ + 1] ELSE released
             /\ returned' = IF ok THEN [returned EXCEPT ![bufferId] = @ + 1] ELSE returned
             /\ meshLast' = [NoCall EXCEPT !.op = "consumeBuffer", !.id = bufferId,
                               !.result = IF ok THEN "data" ELSE "null"]
    /\ UNCHANGED <<totalMemory, opticalLeases, quantumLeases, updateInterval, meshNow,
                   nextMeshId>>
    /\ UNCHANGED exceptMesh

\* the callback of the setTimeout armed by consumeBuffer
bufferDeleteTimer ==
    /\ \E bufferId \in deleteTimers :
         /\ buffers' = [buffers EXCEPT ![bufferId] = NoBuffer]
         /\ deleteTimers' = deleteTimers \ {bufferId}
    /\ UNCHANGED <<totalMemory, usedMemory, opticalLeases, quantumLeases, updateInterval,
                   meshNow, nextMeshId, meshLast, released, returned>>
    /\ UNCHANGED exceptMesh

Expired(lease) == lease.stored /\ meshNow > lease.endTime
ExpiredSize(id) ==
    (IF Expired(opticalLeases[id]) THEN opticalLeases[id].size ELSE 0)
    + (IF Expired(quantumLeases[id]) THEN quantumLeases[id].size ELSE 0)
RECURSIVE ExpiredSum(_)
ExpiredSum(n) == IF n = 0 THEN 0 ELSE ExpiredSize(n) + ExpiredSum(n - 1)

\* the callback of a monitoring interval: cleanupExpiredLeases
cleanupExpiredLeases ==
    /\ updateInterval > 0
    /\ usedMemory' = usedMemory - ExpiredSum(MaxMeshIds)
    /\ opticalLeases' = [id \in MeshIds |->
                           IF Expired(opticalLeases[id]) THEN NoLease ELSE opticalLeases[id]]
    /\ quantumLeases' = [id \in MeshIds |->
                           IF Expired(quantumLeases[id]) THEN NoLease ELSE quantumLeases[id]]
    /\ released' = [id \in MeshIds |->
                      IF Expired(opticalLeases[id]) \/ Expired(quantumLeases[id])
                        THEN released[id] + 1 ELSE released[id]]
    /\ meshLast' = [NoCall EXCEPT !.op = "cleanupExpiredLeases", !.at = meshNow]
    /\ UNCHANGED <<totalMemory, buffers, updateInterval, deleteTimers, meshNow, nextMeshId,
                   returned>>
    /\ UNCHANGED exceptMesh

\* initialize: the maps are cleared and one more monitoring interval is armed
\* (the one armed before is not cleared)
initialize ==
    /\ updateInterval < MaxMonitors
    /\ usedMemory' = 0
    /\ opticalLeases' = [id \in MeshIds |-> NoLease]
    /\ quantumLeases' = [id \in MeshIds |-> NoLease]
    /\ buffers' = [id \in MeshIds |-> NoBuffer]
    /\ updateInterval' = updateInterval + 1
    /\ meshLast' = [NoCall EXCEPT !.op = "initialize"]
    /\ UNCHANGED <<totalMemory, deleteTimers, meshNow, nextMeshId, released, returned>>
    /\ UNCHANGED exceptMesh

\* Date.now() moves on
meshTick ==
    /\ meshNow < MaxNow
    /\ meshNow' = meshNow + 1
    /\ UNCHANGED <<totalMemory, usedMemory, opticalLeases, quantumLeases, buffers,
                   updateInterval, deleteTimers, nextMeshId, meshLast, released, returned>>
    /\ UNCHANGED exceptMesh

(***************************************************************************)
(* HostOrchestrator: sprints.  startSprint arms a timer that calls         *)
(* endSprint after `duration`; endSprint clears the processing interval    *)
(* and nothing else.  sprints is the number of sprints started so far (the *)
(* id of the latest); a timer is kept with the sprint that armed it.       *)
(***************************************************************************)
MaxSprints == 2
MaxSprintNow == 3

SprintDurations == {1, 2}
NoSprint == [id |-> 0, startTime |-> 0, duration |-> 0]
NoSprintCall == [op |-> Null, ended |-> NoSprint, armedBy |-> 0, noop |-> FALSE]

\* endSprint: what it leaves of isRunning and currentSprint
endSprintEffect(running, current) ==
    IF ~running \/ current = NoSprint
      THEN [isRunning |-> running, currentSprint |-> current, ended |-> NoSprint]
      ELSE [isRunning |-> FALSE, currentSprint |-> NoSprint, ended |-> current]

startSprint ==
    /\ \E duration \in SprintDurations :
         IF isRunning
           THEN /\ sprintLast' = [NoSprintCall EXCEPT !.op = "startSprint", !.noop = TRUE]
                /\ UNCHANGED <<isRunning, currentSprint, sprints, autoEndTimers>>
           ELSE /\ sprints < MaxSprints
                /\ isRunning' = TRUE
                /\ sprints' = sprints + 1
                /\ currentSprint' = [id |-> sprints + 1, startTime |-> sprintNow,
                                     duration |-> duration]
                /\ autoEndTimers' = autoEndTimers \cup
                                      {[armedBy |-> sprints + 1, due |-> sprintNow + duration]}
                /\ sprintLast' = [NoSprintCall EXCEPT !.op = "startSprint"]
    /\ UNCHANGED sprintNow
    /\ UNCHANGED exceptSprint

\* endSprint called from outside (emergencyShutdown)
endSprint ==
    /\ LET e == endSprintEffect(isRunning, currentSprint) IN
         /\ isRunning' = e.isRunning
         /\ currentSprint' = e.currentSprint
         /\ sprintLast' = [NoSprintCall EXCEPT !.op = "endSprint", !.ended = e.ended]
    /\ UNCHANGED <<sprints, autoEndTimers, sprintNow>>
    /\ UNCHANGED exceptSprint

\* the callback of an auto-end timer that is due: endSprint
autoEndTimer ==
    /\ \E t \in autoEndTimers :
         /\ t.due <= sprintNow
         /\ autoEndTimers' = autoEndTimers \ {t}
         /\ LET e == endSprintEffect(isRunning, currentSprint) IN
              /\ isRunning' = e.isRunning
              /\ currentSprint' = e.currentSprint
              /\ sprintLast' = [NoSprintCall EXCEPT !.op = "autoEnd", !.ended = e.ended,
                                  !.armedBy = t.armedBy]
    /\ UNCHANGED <<sprints, sprintNow>>
    /\ UNCHANGED exceptSprint

\* Date.now() moves on; a timer that is due fires before the clock passes it
sprintTick ==
    /\ sprintNow < MaxSprintNow
    /\ \A t \in autoEndTimers : t.due > sprintNow
    /\ sprintNow' = sprintNow + 1
    /\ UNCHANGED <<isRunning, currentSprint, sprints, autoEndTimers, sprintLast>>
    /\ UNCHANGED exceptSprint

(***************************************************************************)
(* synchrony-analytics: concurrent ingest and metrics requests on one      *)
(* stored session.  Each request runs on a goroutine of its own; mu is the *)
(* sync.RWMutex of the Service (one writer, or any number of readers).  A  *)
(* goroutine is at "writing" while it appends to sess.Streams and at       *)
(* "reading" while it reads sess.Streams and resamples the series.         *)
(***************************************************************************)
MaxWorkers == 3
Workers == 1 .. MaxWorkers
NoWorker == [op |-> Null, pc |-> "idle", raced |-> FALSE, result |-> Null]
MuFree == [writer |-> 0, readers |-> {}]

\* a request arrives and is decoded
requestArrives(w) ==
    /\ workers[w].pc = "idle"
    /\ \E op \in {"ingest", "metrics"} :
         workers' = [workers EXCEPT ![w] = [NoWorker EXCEPT !.op = op, !.pc = "decoded"]]
    /\ UNCHANGED mu
    /\ UNCHANGED exceptLock

\* handleIngest: s.mu.Lock(); sess, ok := s.sessions[sessionID]
ingestLock(w) ==
    /\ workers[w].op = "ingest" /\ workers[w].pc = "decoded"
    /\ mu = MuFree
    /\ mu' = [mu EXCEPT !.writer = w]
    /\ workers' = [workers EXCEPT ![w].pc = "locked"]
    /\ UNCHANGED exceptLock

\* handleIngest: sess.Streams[req.Stream] = append(...)
ingestAppend(w) ==
    /\ workers[w].pc = "locked"
    /\ workers' = [workers EXCEPT ![w].pc = "writing"]
    /\ UNCHANGED mu
    /\ UNCHANGED exceptLock

\* handleIngest: writeJSON, then the deferred s.mu.Unlock()
ingestUnlock(w) ==
    /\ workers[w].pc = "writing"
    /\ mu' = [mu EXCEPT !.writer = 0]
    /\ workers' = [workers EXCEPT ![w].pc = "done", ![w].result = "202"]
    /\ UNCHANGED exceptLock

\* handleMetrics: s.mu.RLock(); sess, ok := s.sessions[sessionID]
metricsRLock(w) ==
    /\ workers[w].op = "metrics" /\ workers[w].pc = "decoded"
    /\ mu.writer = 0
    /\ mu' = [mu EXCEPT !.readers = @ \cup {w}]
    /\ workers' = [workers EXCEPT ![w].pc = "rlocked"]
    /\ UNCHANGED exceptLock

\* handleMetrics: s.mu.RUnlock()
metricsRUnlock(w) ==
    /\ workers[w].pc = "rlocked"
    /\ mu' = [mu EXCEPT !.readers = @ \ {w}]
    /\ workers' = [workers EXCEPT ![w].pc = "unlocked"]
    /\ UNCHANGED exceptLock

\* handleMetrics: series := sess.Streams[stream], and the loops over it
metricsReadStreams(w) ==
    /\ workers[w].pc = "unlocked"
    /\ workers' = [workers EXCEPT ![w].pc = "reading"]
    /\ UNCHANGED mu
    /\ UNCHANGED exceptLock

\* handleMetrics: the answer.  A read that overlapped an append is a data
\* race: the request is answered, or the runtime stops the process
\* (concurrent map read and map write)
metricsReply(w) ==
    /\ workers[w].pc = "reading"
    /\ LET raced == \E v \in Workers : workers[v].pc = "writing" IN
       \E outcome \in (IF raced THEN {"200", "400", "fatal"} ELSE {"200", "400"}) :
         workers' = [workers EXCEPT ![w].pc = "done", ![w].raced = raced,
                                    ![w].result = outcome]
    /\ UNCHANGED mu
    /\ UNCHANGED exceptLock

\* the goroutine ends
workerDone(w) ==
    /\ workers[w].pc = "done"
    /\ workers' = [workers EXCEPT ![w] = NoWorker]
    /\ UNCHANGED mu
    /\ UNCHANGED exceptLock

(***************************************************************************)
(* The clients of /v1/ffm/alloc: Client.Allocate of the Go SDK and         *)
(* allocateFFM of the ffm-demo, each against the ffmAlloc handler of the   *)
(* skeleton.  The reply travels as a JSON object, kept as a function from  *)
(* its keys to their values.                                               *)
(***************************************************************************)
MaxSdkCalls == 2
StatusCreated == 201

\* json.NewEncoder(w).Encode(reply) of an FFMAllocReply; http.Error writes text
EncodeReply(resp) ==
    IF resp.status = 400
      THEN [text |-> "error"]
      ELSE [ffm_handle |-> resp.reply.Handle,
            policy_lease_ttl_s |-> resp.reply.PolicyLeaseTTLsec]

\* json decoding into Handle{ID `json:"id"`, Bytes `json:"bytes"`}: a key the
\* object lacks leaves the zero value
DecodeHandle(obj) ==
    [ID |-> IF "id" \in DOMAIN obj THEN obj["id"] ELSE "",
     Bytes |-> IF "bytes" \in DOMAIN obj THEN obj["bytes"] ELSE 0]
NoHandle == [ID |-> Null, Bytes |-> 0]

\* Client.Allocate and allocateFFM, from the response on
clientResult(resp) ==
    IF resp.status # StatusCreated
      THEN [err |-> "HTTP", handle |-> NoHandle]
      ELSE [err |-> "nil", handle |-> DecodeHandle(EncodeReply(resp))]

\* one call of a client: the request is marshalled and posted, ffmAlloc
\* answers it (a bandwidth_floor_GBs that does not fit the daemon's uint32
\* does not decode), the client reads the response
clientCall(client) ==
    /\ Len(sdkCalls) < MaxSdkCalls
    /\ \E decodes \in BOOLEAN, req \in FFMAllocRequest :
         LET resp == ffmAllocResponse(decodes, req) IN
         sdkCalls' = Append(sdkCalls,
             [client |-> client, daemon |-> resp, result |-> clientResult(resp)])
    /\ UNCHANGED exceptSdk

ClientAllocate == clientCall("sdk")
allocateFFM == clientCall("ffm-demo")

InitHelio ==
    /\ simPc = "idle"
    /\ rawReq = NoSimRequest
    /\ simReq = NoSimRequest
    /\ currentBER = 0
    /\ currentEyeMargin = 0
    /\ iterations = 0
    /\ converged = FALSE
    /\ laneCount = 0
    /\ lastCheck = NoCheck
    /\ tieBreaks = FALSE
    /\ simResp = Null
    /\ berProfileMin = 0
    /\ temperatureProfile = NoPoints
    /\ berProfile = NoPoints
    /\ eyeMarginProfile = NoPoints

InitSkel == exchanges = <<>>

InitLedger ==
    /\ ledger = [i \in Ids |-> NoAlloc]
    /\ nextId = 1
    /\ usedBytes = [t \in Tiers |-> 0]
    /\ committedBw = [t \in Tiers |-> 0]
    /\ mig = [i \in Ids |-> NoMig]
    /\ records = NoRecord
    /\ violations = [i \in Ids |-> 0]
    /\ attempts = [i \in Ids |-> 0]
    /\ intent = [i \in Ids |-> Null]
    /\ lastResult = NoResult

\* NewHELIOPASSSimulator: the fields Simulate reads
NewHELIOPASSSimulator ==
    [BaseTemperature |-> BaseTemperature, MaxIterations |-> MaxIterations]

InitServer ==
    /\ simulator = NewHELIOPASSSimulator
    /\ runs = [h \in Handlers |-> NoRun]

InitLanes ==
    /\ lanePc = "idle"
    /\ laneReq = NoLaneRequest
    /\ noise = NoNoise
    /\ biasVoltages = <<>>
    /\ lambdaShifts = <<>>
    /\ laserPowerAdjust = <<>>
    /\ laneIterations = 0
    /\ laneConverged = FALSE
    /\ checkOk = FALSE
    /\ applied = 0
    /\ measuredAt = 0
    /\ laneResp = Null

InitSavings ==
    /\ savIn = NominalSetting
    /\ savOut = savingsOf(NominalSetting)
    /\ savPrev = [in |-> NominalSetting, out |-> savingsOf(NominalSetting)]

\* new MemoryMesh()
InitMesh ==
    /\ totalMemory = TotalMemory
    /\ usedMemory = 0
    /\ opticalLeases = [id \in MeshIds |-> NoLease]
    /\ quantumLeases = [id \in MeshIds |-> NoLease]
    /\ buffers = [id \in MeshIds |-> NoBuffer]
    /\ updateInterval = 0
    /\ deleteTimers = {}
    /\ meshNow = 0
    /\ nextMeshId = 1
    /\ meshLast = NoCall
    /\ released = [id \in MeshIds |-> 0]
    /\ returned = [id \in MeshIds |-> 0]

\* new HostOrchestrator()
InitSprint ==
    /\ isRunning = FALSE
    /\ currentSprint = NoSprint
    /\ sprints = 0
    /\ autoEndTimers = {}
    /\ sprintNow = 0
    /\ sprintLast = NoSprintCall

InitLock ==
    /\ mu = MuFree
    /\ workers = [w \in Workers |-> NoWorker]

(***************************************************************************)
(* ConfidentialComputeService: enclaves, and the secrets stored in them.   *)
(* An ID is the hex text of 16 random bytes; the model names the bytes of  *)
(* a successful rand.Read by a number never delivered before.  The service *)
(* has no lock; its methods are called one after another.                  *)
(***************************************************************************)
MaxFreshIds == 3
HashSize == 32
IDLength == 16
QuoteLength == 64
FallbackBytes == 0
Panics == "panic"
ServiceIds == 0 .. MaxFreshIds

\* generateRandomBytes(length): the bytes rand.Read delivered; when rand.Read
\* returned an error, the first length bytes of sha256("random_<length>"),
\* the same in every call, and a slice out of range when length exceeds the hash
generateRandomBytes(length, readOk, fresh) ==
    IF readOk THEN [panics |-> FALSE, bytes |-> fresh]
    ELSE [panics |-> length > HashSize, bytes |-> FallbackBytes]

\* generateID: hex.EncodeToString is one-to-one, the ID is named by its bytes
generateID(readOk, fresh) == generateRandomBytes(IDLength, readOk, fresh).bytes

NoEnclave == [Status |-> Null, Secrets |-> {}]
NoSecret == [stored |-> FALSE, EnclaveID |-> 0]
SecretOf(enclaveID) == [stored |-> TRUE, EnclaveID |-> enclaveID]
NoEnclaveCall == [op |-> Null, id |-> 0, err |-> "nil", wasTerminated |-> FALSE]
EnclaveCall(op, id, err, was) == [op |-> op, id |-> id, err |-> err, wasTerminated |-> was]

\* the reads of a call: each either delivers fresh bytes or fails
readsDone(idOk) ==
    /\ idOk => nextFreshId <= MaxFreshIds
    /\ nextFreshId' = IF idOk THEN nextFreshId + 1 ELSE nextFreshId

CreateEnclave ==
    \E idOk, quoteOk \in BOOLEAN :
        LET enclaveID == generateID(idOk, nextFreshId)
            quote == generateRandomBytes(QuoteLength, quoteOk, nextFreshId) IN
        /\ readsDone(idOk)
        /\ randFailed' = (randFailed \/ ~idOk \/ ~quoteOk)
        /\ IF quote.panics
             THEN /\ enclaveLast' = EnclaveCall("CreateEnclave", enclaveID, Panics, FALSE)
                  /\ UNCHANGED enclaves
             ELSE /\ enclaves' = [enclaves EXCEPT ![enclaveID] =
                                     [Status |-> "active", Secrets |-> {}]]
                  /\ enclaveLast' = EnclaveCall("CreateEnclave", enclaveID, "nil", FALSE)
        /\ UNCHANGED <<secrets, terminated, belonged, exceptEnclave>>

TerminateEnclave ==
    \E id \in ServiceIds :
        /\ IF enclaves[id] = NoEnclave
             THEN /\ enclaveLast' = EnclaveCall("TerminateEnclave", id, "not found", FALSE)
                  /\ UNCHANGED <<enclaves, secrets, terminated, belonged>>
             ELSE /\ enclaves' = [enclaves EXCEPT ![id] =
                                     [Status |-> "terminated", Secrets |-> {}]]
                  /\ secrets' = [k \in ServiceIds |->
                                   IF k \in enclaves[id].Secrets THEN NoSecret
                                                                 ELSE secrets[k]]
                  /\ terminated' = terminated \cup {id}
                  /\ belonged' = belonged \cup enclaves[id].Secrets
                  /\ enclaveLast' = EnclaveCall("TerminateEnclave", id, "nil", FALSE)
        /\ UNCHANGED <<nextFreshId, randFailed, exceptEnclave>>

\* encryptSecret does not fail: the key has 32 bytes and the nonce 12, both
\* within the hash when rand.Read fails
StoreSecret ==
    \E enclaveID \in ServiceIds, idOk \in BOOLEAN :
        LET was == enclaveID \in terminated IN
        IF enclaves[enclaveID] = NoEnclave
          THEN /\ enclaveLast' = EnclaveCall("StoreSecret", enclaveID, "not found", was)
               /\ UNCHANGED <<enclaves, secrets, nextFreshId, randFailed, terminated,
                              belonged, exceptEnclave>>
          ELSE IF enclaves[enclaveID].Status # "active"
          THEN /\ enclaveLast' = EnclaveCall("StoreSecret", enclaveID, "not active", was)
               /\ UNCHANGED <<enclaves, secrets, nextFreshId, randFailed, terminated,
                              belonged, exceptEnclave>>
          ELSE LET secretID == generateID(idOk, nextFreshId) IN
               /\ readsDone(idOk)
               /\ randFailed' = (randFailed \/ ~idOk)
               /\ secrets' = [secrets EXCEPT ![secretID] = SecretOf(enclaveID)]
               /\ enclaves' = [enclaves EXCEPT ![enclaveID].Secrets = @ \cup {secretID}]
               /\ enclaveLast' = EnclaveCall("StoreSecret", enclaveID, "nil", was)
               /\ UNCHANGED <<terminated, belonged, exceptEnclave>>

\* decryptSecret finds the key encryptSecret left for the enclave and opens
\* the value that was sealed with it
RetrieveSecret ==
    \E secretID \in ServiceIds :
        LET was == secretID \in belonged
            err == IF secrets[secretID] = NoSecret THEN "not found"
                   ELSE IF \/ enclaves[secrets[secretID].EnclaveID] = NoEnclave
                           \/ enclaves[secrets[secretID].EnclaveID].Status # "active"
                          THEN "not active"
                   ELSE "nil" IN
        /\ enclaveLast' = EnclaveCall("RetrieveSecret", secretID, err, was)
        /\ UNCHANGED <<enclaves, secrets, nextFreshId, randFailed, terminated,
                       belonged, exceptEnclave>>

DeleteSecret ==
    \E secretID \in ServiceIds :
        /\ IF secrets[secretID] = NoSecret
             THEN /\ enclaveLast' = EnclaveCall("DeleteSecret", secretID, "not found", FALSE)
                  /\ UNCHANGED <<enclaves, secrets>>
             ELSE LET owner == secrets[secretID].EnclaveID IN
                  /\ enclaves' = IF enclaves[owner] # NoEnclave
                                   THEN [enclaves EXCEPT ![owner].Secrets = @ \ {secretID}]
                                   ELSE enclaves
                  /\ secrets' = [secrets EXCEPT ![secretID] = NoSecret]
                  /\ enclaveLast' = EnclaveCall("DeleteSecret", secretID, "nil", FALSE)
        /\ UNCHANGED <<nextFreshId, randFailed, terminated, belonged, exceptEnclave>>

\* NewConfidentialComputeService
InitEnclave ==
    /\ enclaves = [k \in ServiceIds |-> NoEnclave]
    /\ secrets = [k \in ServiceIds |-> NoSecret]
    /\ nextFreshId = 1
    /\ randFailed = FALSE
    /\ terminated = {}
    /\ belonged = {}
    /\ enclaveLast = NoEnclaveCall

InitSdk == sdkCalls = <<>>

InitSync ==
    /\ sessions = {}
    /\ syncLast = NoExchange
    /\ syncCount = 0

Init ==
    /\ InitSkel /\ InitHelio /\ InitLedger /\ InitServer /\ InitLanes /\ InitSync
    /\ InitSavings /\ InitMesh /\ InitSprint /\ InitLock /\ InitSdk /\ InitEnclave

NextSkel == ffmAlloc \/ notFound
SpecSkel == Init /\ [][NextSkel]_vars

NextHelio == SimulateBegin \/ SimulateIteration \/ SimulateReturn
SpecHelio == Init /\ [][NextHelio]_vars

NextLedger ==
    \/ \E b \in AllocBytes, t \in AllocTiers, f \in AllocFloors : Allocate(b, t, f)
    \/ \E i \in Ids, f \in NewFloors : AdjustBandwidthFloor(i, f)
    \/ \E i \in Ids : Release(i)
    \/ \E i \in Ids, t \in MigrationTargets : RequestTierMigration(i, t)
    \/ \E i \in Ids : MigrateCommit(i)
    \/ \E i \in Ids : MigrateAbort(i)
SpecLedger == Init /\ [][NextLedger]_vars

NextEnforcer ==
    \/ \E b \in AllocBytes, t \in AllocTiers, f \in AllocFloors : Allocate(b, t, f)
    \/ \E i \in Ids : Release(i)
    \/ EnforcerTick
    \/ \E i \in Ids : MigrateIntent(i)
    \/ \E i \in Ids : MigrateCommit(i)
    \/ \E i \in Ids : MigrateAbort(i)
SpecEnforcer == Init /\ [][NextEnforcer]_vars

NextServer ==
    \E h \in Handlers :
        \/ handleSimulate(h)
        \/ simulateStep(h)
        \/ handleSimulateReply(h)
        \/ handlerDone(h)
SpecServer == Init /\ [][NextServer]_vars

NextLanes == LanesBegin \/ LoopMeasure \/ LoopApply \/ LoopVerify \/ LanesReturn
SpecLanes == Init /\ [][NextLanes]_vars

NextSync == handleStartSession \/ handleIngest \/ handleMetrics
SpecSync == Init /\ [][NextSync]_vars

NextSavings == chooseSettings \/ lowerBias \/ lowerPower
SpecSavings == Init /\ [][NextSavings]_vars

NextMesh ==
    \/ allocateOpticalLease \/ allocateQuantumLease \/ createBuffer \/ consumeBuffer
    \/ bufferDeleteTimer \/ cleanupExpiredLeases \/ initialize \/ meshTick
SpecMesh == Init /\ [][NextMesh]_vars

NextSprint == startSprint \/ endSprint \/ autoEndTimer \/ sprintTick
SpecSprint == Init /\ [][NextSprint]_vars

\* the runtime has stopped the process
Crashed == \E v \in Workers : workers[v].result = "fatal"
NextLock ==
    /\ ~Crashed
    /\ \E w \in Workers :
         \/ requestArrives(w)
         \/ ingestLock(w) \/ ingestAppend(w) \/ ingestUnlock(w)
         \/ metricsRLock(w) \/ metricsRUnlock(w) \/ metricsReadStreams(w)
         \/ metricsReply(w) \/ workerDone(w)
SpecLock == Init /\ [][NextLock]_vars

NextSdk == ClientAllocate \/ allocateFFM
SpecSdk == Init /\ [][NextSdk]_vars

\* a panic of CreateEnclave is not recovered by the service
NextEnclave ==
    /\ enclaveLast.err # Panics
    /\ \/ CreateEnclave \/ StoreSecret \/ RetrieveSecret
       \/ DeleteSecret \/ TerminateEnclave
SpecEnclave == Init /\ [][NextEnclave]_vars

Next ==
    \/ NextSkel \/ NextHelio \/ NextLedger \/ NextEnforcer \/ NextServer \/ NextLanes
    \/ NextSync \/ NextSavings \/ NextMesh \/ NextSprint
    \/ NextLock \/ NextSdk \/ NextEnclave
Spec == Init /\ [][Next]_vars

(***************************************************************************)
(* Claims about the memqosd skeleton (SpecSkel)                            *)
(***************************************************************************)
Prefix(k) == SubSeq(exchanges, 1, k - 1)
GrantsBefore(k) == SelectSeq(Prefix(k), IsGrant)
IsAllocRequest(x) == x.path = AllocPath /\ x.req.LatencyClass \in Tiers

\* C1: in every reachable state, for every tier, the bandwidth floors of the
\* allocations granted in that tier sum to at most the tier's bandwidth ceiling.
C1_BandwidthConservation ==
    \A t \in Tiers : FloorSum(Grants, t) <= TierBandwidthCeiling[t]

\* C2: an allocation request for more bytes than the requested tier has free is
\* rejected, and a request for exactly the capacity of an empty tier is granted.
C2_CapacityAdmission ==
    \A k \in 1 .. Len(exchanges) :
        LET x == exchanges[k]
            t == x.req.LatencyClass
        IN  IsAllocRequest(x) =>
              /\ (x.req.Bytes > TierCapacity[t] - BytesSum(GrantsBefore(k), t))
                    => x.status # 200
              /\ (x.req.Bytes = TierCapacity[t] /\ BytesSum(GrantsBefore(k), t) = 0)
                    => x.status = 200

\* C3: an allocation request whose floor, added to the floors already granted in
\* its tier, exceeds the tier's bandwidth ceiling is rejected and records no grant.
C3_BandwidthAdmission ==
    \A k \in 1 .. Len(exchanges) :
        LET x == exchanges[k]
            t == x.req.LatencyClass
        IN  (IsAllocRequest(x)
             /\ FloorSum(GrantsBefore(k), t) + x.req.BandwidthFloorGBs
                  > TierBandwidthCeiling[t])
            => (x.status # 200 /\ x.reply = NoReply)

\* C17: any two granted allocation requests return distinct handles.
C17_UniqueHandles ==
    \A j, k \in 1 .. Len(exchanges) :
        (j # k /\ IsGrant(exchanges[j]) /\ IsGrant(exchanges[k]))
            => exchanges[j].reply.Handle # exchanges[k].reply.Handle

\* C29 (SpecSdk): whenever ffmAlloc accepts a request (its body decodes), the
\* client returns a nil error and a handle whose ID is the handle the daemon
\* issued; the client returns an error only when the daemon rejected the request.
C29_ClientDaemonAgree ==
    \A k \in 1 .. Len(sdkCalls) :
        LET c == sdkCalls[k] IN
        /\ c.daemon.status # 400 =>
              (c.result.err = "nil" /\ c.result.handle.ID = c.daemon.reply.Handle)
        /\ c.result.err # "nil" => c.daemon.status = 400

(***************************************************************************)
(* Claims about ConfidentialComputeService (SpecEnclave)                   *)
(***************************************************************************)
\* the secret table and the Secrets maps of the enclaves hold the same
\* secrets, each under its owning enclave, and every owning enclave is active
SecretIndexConsistent ==
    /\ \A k \in ServiceIds :
         secrets[k] # NoSecret =>
            /\ enclaves[secrets[k].EnclaveID] # NoEnclave
            /\ k \in enclaves[secrets[k].EnclaveID].Secrets
            /\ enclaves[secrets[k].EnclaveID].Status = "active"
    /\ \A e, k \in ServiceIds :
         k \in enclaves[e].Secrets => secrets[k] = SecretOf(e)

\* C30 (SpecEnclave): after any sequence of CreateEnclave, StoreSecret,
\* RetrieveSecret, DeleteSecret and TerminateEnclave a secret ID is in the
\* secret table if and only if it is in the Secrets map of its owning enclave,
\* and every such enclave is active; after TerminateEnclave(e) every StoreSecret
\* for e and every RetrieveSecret of a secret that belonged to e fails.
C30_SecretIndex ==
    /\ SecretIndexConsistent
    /\ (enclaveLast.op \in {"StoreSecret", "RetrieveSecret"} /\ enclaveLast.wasTerminated)
          => enclaveLast.err # "nil"

(***************************************************************************)
(* Claims about HELIOPASS Simulate (SpecHelio)                             *)
(***************************************************************************)
\* C9: every call of Simulate with a known ambient profile returns a response,
\* after at least 1 and at most MaxIterations iterations.
C9_AlwaysReturns ==
    /\ simPc # "panicked"
    /\ simPc = "running" => iterations <= MaxIterations
    /\ simPc = "done" => simResp.Iterations \in 1 .. MaxIterations

\* C10: a run is reported converged only if BER <= 1.1 * targetBER and
\* eye margin >= 0.7 both held in the iteration at which it stopped; an iteration
\* in which only one of them holds does not end the run; the final values of a
\* converged run satisfy both bounds.
C10_ConvergenceNeedsBoth ==
    /\ (simPc = "running" /\ converged) => (lastCheck.berOk /\ lastCheck.eyeOk)
    /\ (simPc = "running" /\ lastCheck.berOk # lastCheck.eyeOk) => ~converged
    /\ simPc = "done" =>
         /\ simResp.Converged =>
              /\ 10 * simResp.FinalBER <= 11 * simReq.TargetBER
              /\ simResp.FinalEyeMargin >= EyeThreshold
              /\ lastCheck.berOk /\ lastCheck.eyeOk
         /\ simResp.Iterations < MaxIterations => simResp.Converged

\* a converged run in which an earlier iteration met only one of the two conditions
C10_Witness ==
    /\ simPc = "done"
    /\ simResp.Converged
    /\ tieBreaks
    /\ simResp.Iterations > 1

\* C11: the status of a response is "converged" exactly when its converged flag
\* is set; a run that used all MaxIterations without meeting both targets ends
\* with a response, status "partial_convergence" and converged false; Simulate
\* returns an error only for an unknown profile, before any iteration.
C11_StatusMatchesFlag ==
    /\ simPc = "done" =>
         /\ simResp.Status \in {"converged", "partial_convergence"}
         /\ (simResp.Status = "converged") <=> simResp.Converged
         /\ (simResp.Iterations = MaxIterations /\ ~(lastCheck.berOk /\ lastCheck.eyeOk))
               => (simResp.Status = "partial_convergence" /\ ~simResp.Converged)
    /\ simPc = "error" => (simReq.AmbientProfile \notin KnownProfiles /\ iterations = 0)

\* a run that used every iteration and reports partial convergence
C11_Witness ==
    /\ simPc = "done"
    /\ simResp.Iterations = MaxIterations
    /\ simResp.Status = "partial_convergence"
    /\ ~simResp.Converged

\* C12: when converged is false, the reported finalBER is the lowest BER of
\* berProfile (the BER observed in every iteration of the run).
C12_ReportsBest ==
    (simPc = "done" /\ ~simResp.Converged) => simResp.FinalBER <= berProfileMin

C14_OneRunPerCorridor ==
    \A g, h \in Handlers :
        (g # h /\ runs[g].pc = "running" /\ runs[h].pc = "running")
            => runs[g].corridor # runs[h].corridor

C24_ResponseConsistent ==
    simPc = "done" =>
        /\ 1 <= simResp.Iterations /\ simResp.Iterations <= MaxIterations
        /\ simResp.TemperatureProfile.len = simResp.Iterations
        /\ simResp.BERProfile.len = simResp.Iterations
        /\ simResp.EyeMarginProfile.len = simResp.Iterations
        /\ simResp.FinalBER = simResp.BERProfile.last
        /\ simResp.FinalEyeMargin = simResp.EyeMarginProfile.last
        /\ ~simResp.Converged => simResp.Iterations = MaxIterations
        /\ simReq.TargetBER = 0 => ~simResp.Converged

\* a run with target BER 0 that ended after MaxIterations iterations
C24_Witness ==
    /\ simPc = "done"
    /\ simReq.TargetBER = 0
    /\ simResp.BERProfile.len = MaxIterations
    /\ ~simResp.Converged

\* C22: a request that leaves lambda_count, initial_ber or duration_seconds
\* zero is run with 8 lanes, an initial BER of 1e-9 and a duration of 60 s; a
\* request with a positive lambda_count is run with that many lanes.
C22_RequestDefaults ==
    simPc \in {"running", "done"} =>
        /\ rawReq.LambdaCount = 0 => laneCount = DefaultLambdaCount
        /\ rawReq.LambdaCount > 0 => laneCount = rawReq.LambdaCount
        /\ rawReq.InitialBER = 0 => simReq.InitialBER = DefaultInitialBER
        /\ rawReq.InitialBER # 0 => simReq.InitialBER = rawReq.InitialBER
        /\ rawReq.Duration = 0 => simReq.Duration = DefaultDuration
        /\ iterations = 0 => currentBER = simReq.InitialBER
        /\ simPc = "done" => simResp.Lanes = laneCount

\* a finished run of a request that left all three zero
C22_Witness ==
    /\ simPc = "done"
    /\ rawReq.LambdaCount = 0 /\ rawReq.InitialBER = 0 /\ rawReq.Duration = 0
    /\ simResp.Lanes = DefaultLambdaCount

(***************************************************************************)
(* Claims about the lanes of HELIOPASS Simulate (SpecLanes)                *)
(***************************************************************************)
InRange(seq, lo, hi) == \A l \in 1 .. Len(seq) : seq[l] >= lo /\ seq[l] <= hi

\* C15: at initialisation, after every iteration and in the response, every bias
\* voltage is within [0.8, 1.5] V, every wavelength shift within [-0.1, 0.1] nm
\* and every laser power adjustment within [-2.0, 2.0] dB.
C15_LanesInRange ==
    /\ lanePc # "idle" =>
         /\ Len(biasVoltages) = laneReq.LambdaCount
         /\ InRange(biasVoltages, BiasLow, BiasHigh)
         /\ InRange(lambdaShifts, 0 - ShiftLimit, ShiftLimit)
         /\ InRange(laserPowerAdjust, 0 - PowerLimit, PowerLimit)
    /\ lanePc = "done" =>
         /\ InRange(laneResp.BiasVoltages, BiasLow, BiasHigh)
         /\ InRange(laneResp.LambdaShifts, 0 - ShiftLimit, ShiftLimit)
         /\ InRange(laneResp.LaserPowerAdjust, 0 - PowerLimit, PowerLimit)

\* a response after several rounds whose bias voltage sits at the upper clamp
C15_Witness ==
    /\ lanePc = "done"
    /\ laneResp.Iterations > 1
    /\ laneResp.BiasVoltages[1] = BiasHigh

\* C16: the power savings a run returns are at least 0 and at most 20 percent.
C16_SavingsBounded ==
    lanePc = "done" =>
        /\ laneResp.PowerSavings >= 0
        /\ laneResp.PowerSavings <= SavingsCap
        /\ laneResp.PowerSavings =
              calculatePowerSavings(laneResp.BiasVoltages, laneResp.LaserPowerAdjust)

\* a response whose savings were negative before the clamp
C16_Witness ==
    /\ lanePc = "done"
    /\ laneResp.PowerSavings = 0
    /\ voltageSavingsSum(laneResp.BiasVoltages) + laserSavingsSum(laneResp.LaserPowerAdjust) < 0

\* C20: in every iteration the convergence check decides on BER and eye-margin
\* values measured after the lane updates of that iteration were applied; after
\* the loop has ended (converged, or MaxIterations reached) no phase runs.
C20_VerifyAfterApply ==
    /\ lanePc = "verify" => measuredAt = applied
    /\ lanePc \in {"return", "done"} =>
          (laneConverged \/ laneIterations = MaxIterations)

(***************************************************************************)
(* Claims about calculatePowerSavings (SpecSavings)                        *)
(***************************************************************************)
\* C23: power savings are monotone: when one lane's bias voltage or one lane's
\* laser power adjustment is lowered and nothing else changes, the savings
\* computed for the new setting are at least those of the old one.
C23_SavingsMonotone ==
    /\ savOut = savingsOf(savIn)
    /\ savPrev.out = savingsOf(savPrev.in)
    /\ savOut >= savPrev.out

\* a lane was lowered and the savings went up strictly
C23_Witness ==
    /\ savPrev.in # savIn
    /\ savOut > savPrev.out

(***************************************************************************)
(* Claims about MemoryMesh (SpecMesh)                                      *)
(***************************************************************************)
StoredSize(id) ==
    (IF opticalLeases[id].stored THEN opticalLeases[id].size ELSE 0)
    + (IF quantumLeases[id].stored THEN quantumLeases[id].size ELSE 0)
    + (IF buffers[id].stored /\ ~buffers[id].consumed THEN buffers[id].size ELSE 0)
RECURSIVE StoredSum(_)
StoredSum(n) == IF n = 0 THEN 0 ELSE StoredSize(n) + StoredSum(n - 1)
AllocationCalls == {"allocateOpticalLease", "allocateQuantumLease", "createBuffer"}

\* the accounting half of C25 alone
MeshAccounting ==
    /\ usedMemory = StoredSum(MaxMeshIds)
    /\ 0 <= usedMemory /\ usedMemory <= totalMemory

\* C25: usedMemory is the sum of the sizes of the stored leases and of the
\* unconsumed buffers, and lies in 0 .. totalMemory; an allocation that would
\* push usedMemory above totalMemory returns null.
C25_MeshAccounting ==
    /\ MeshAccounting
    /\ (meshLast.op \in AllocationCalls /\ ~meshLast.fits) => meshLast.result = "null"

\* C26: the data of a buffer is handed out and its size subtracted at most
\* once; the size of a lease is subtracted only when cleanupExpiredLeases
\* removes it, once, and a cleanup leaves no expired lease behind.
C26_SingleConsume ==
    /\ \A id \in MeshIds :
         /\ released[id] <= 1 /\ returned[id] <= 1
         /\ returned[id] = 1 => released[id] = 1
         /\ buffers[id].stored =>
               /\ buffers[id].consumed <=> returned[id] = 1
               /\ released[id] = returned[id]
         /\ (opticalLeases[id].stored \/ quantumLeases[id].stored) => released[id] = 0
    /\ (meshLast.op = "consumeBuffer" /\ meshLast.result = "data")
          => returned[meshLast.id] = 1
    /\ (meshLast.op = "cleanupExpiredLeases" /\ meshLast.at = meshNow)
          => \A id \in MeshIds : ~Expired(opticalLeases[id]) /\ ~Expired(quantumLeases[id])

\* with two monitoring intervals armed, a lease was cleaned up, and a second
\* consumeBuffer of a consumed buffer has just returned null
C26_Witness ==
    /\ updateInterval = 2
    /\ \E id \in MeshIds : released[id] = 1 /\ returned[id] = 0
    /\ meshLast.op = "consumeBuffer" /\ meshLast.result = "null"
    /\ buffers[meshLast.id].stored /\ returned[meshLast.id] = 1

(***************************************************************************)
(* Claims about the sprints of HostOrchestrator (SpecSprint)               *)
(***************************************************************************)
\* C27: at most one sprint runs at a time (startSprint while one runs changes
\* nothing), and an auto-end timer ends only the sprint that armed it, after
\* that sprint's duration has elapsed.
C27_SprintLifetime ==
    /\ isRunning <=> currentSprint # NoSprint
    /\ isRunning => currentSprint.id = sprints
    /\ (sprintLast.op = "autoEnd" /\ sprintLast.ended # NoSprint) =>
          /\ sprintLast.armedBy = sprintLast.ended.id
          /\ sprintNow >= sprintLast.ended.startTime + sprintLast.ended.duration

(***************************************************************************)
(* Claims about synchrony-analytics (SpecSync)                             *)
(***************************************************************************)
AllConsent(m) == \A k \in 1 .. Len(m.Participants) : m.Participants[k].Consent
Decoded(x) == x.manifest \in ConsentManifest
\* the manifest passes the gate as the handler evaluates it
GovernanceOk(m) ==
    /\ m.WomenLed /\ m.DataMinimization
    /\ ToLower(m.CaptureMode) = "offline" /\ AllConsent(m)

\* C18, as stated: a stored session's manifest has women_led = true,
\* data_minimization = true, capture_mode = offline and consent = true for every
\* participant, and a start request failing any of these is answered 403.
C18_GateLiteral ==
    LET ok(m) == /\ m.WomenLed /\ m.DataMinimization
                 /\ m.CaptureMode = "offline" /\ AllConsent(m)
    IN  /\ \A x \in sessions : ok(x.Manifest)
        /\ (syncLast.op = "start" /\ Decoded(syncLast) /\ ~ok(syncLast.manifest))
              => syncLast.status = 403

\* C18, amended: the same with capture_mode compared without regard to letter
\* case; a start request that is not answered 201 leaves the store as it was;
\* ingest and metrics succeed only on a stored session.
C18_GovernanceGate ==
    /\ [](/\ \A x \in sessions : GovernanceOk(x.Manifest) /\ x.ID = SessionID(x.Manifest)
          /\ (syncLast.op = "start" /\ Decoded(syncLast) /\ ~GovernanceOk(syncLast.manifest))
                => syncLast.status = 403
          /\ (syncLast.op = "start" /\ Decoded(syncLast) /\ GovernanceOk(syncLast.manifest))
                => (syncLast.status = 201 /\ Stored(syncLast.id))
          /\ (syncLast.op \in {"ingest", "metrics"} /\ syncLast.status \in {200, 202})
                => Stored(syncLast.id))
    /\ [][(syncCount' # syncCount /\ syncLast'.op = "start" /\ syncLast'.status # 201)
             => sessions' = sessions]_vars

\* a start request refused with 403 while a session whose manifest says
\* "Offline" is in the store
C18_Witness ==
    /\ syncLast.op = "start"
    /\ syncLast.status = 403
    /\ \E x \in sessions : x.Manifest.CaptureMode = "Offline"

\* C19: every series stored in a session belongs to a pseudonym listed in the
\* session's manifest with consent = true.
C19_ConsentFirstIngest ==
    \A x \in sessions : \A st \in StreamNames : \A k \in 1 .. Len(x.Streams[st]) :
        \E j \in 1 .. Len(x.Manifest.Participants) :
            /\ x.Manifest.Participants[j].Pseudonym = x.Streams[st][k]
            /\ x.Manifest.Participants[j].Consent

\* C28 (SpecLock): every read or write of a session's Streams happens while the
\* goroutine holds the service mutex, so no metrics request reads the streams
\* while an ingest request is appending to them.
C28_StreamsUnderLock ==
    /\ \A w \in Workers :
         /\ workers[w].pc = "writing" => mu.writer = w
         /\ workers[w].pc = "reading" => w \in mu.readers
    /\ ~\E w, v \in Workers : workers[w].pc = "reading" /\ workers[v].pc = "writing"

(***************************************************************************)
(* Claims about the ledger and the migrator (SpecLedger)                   *)
(***************************************************************************)
ResidentBytes(t) ==
    SumOver({i \in List : ledger[i].tier = t}, [i \in Ids |-> ledger[i].bytes])
ResidentBw(t) ==
    SumOver({i \in List : ledger[i].tier = t}, [i \in Ids |-> ledger[i].floor])

\* C4: while a migration of an allocation from S to D is in flight, a reader
\* (Get, List) sees its tier as S or as D and nothing else, and the bytes and the
\* floor of every allocation are counted in exactly one tier: the one it shows.
C4_MigrationAtomicity ==
    /\ \A i \in Ids : InFlight(i) =>
          /\ i \in List
          /\ Get(i).tier \in {mig[i].src, mig[i].dst}
    /\ \A i \in List : Get(i).tier \in Tiers
    /\ \A t \in Tiers : /\ usedBytes[t] = ResidentBytes(t)
                        /\ committedBw[t] = ResidentBw(t)

\* a migration in flight, read in its source tier, after an earlier one completed
C4_Witness ==
    \E i \in Ids : /\ InFlight(i)
                   /\ Get(i).tier = mig[i].src
                   /\ mig[i].src # mig[i].dst
                   /\ records.outcome = "completed"

\* C5: a RequestTierMigration for an allocation that has a migration in flight
\* fails with MIGRATION_IN_PROGRESS and changes neither the allocation nor the
\* migration in flight.
C5_OneMigrationInFlight ==
    [][\A i \in Ids, t \in Tiers :
         (InFlight(i) /\ RequestTierMigration(i, t)) =>
            /\ lastResult' = [op |-> "migrate", id |-> i,
                              result |-> "MIGRATION_IN_PROGRESS"]
            /\ UNCHANGED <<ledger, mig, usedBytes, committedBw, records>>]_vars

\* a second request was refused while the first migration is still in flight
C5_Witness ==
    /\ lastResult.op = "migrate"
    /\ lastResult.result = "MIGRATION_IN_PROGRESS"
    /\ InFlight(lastResult.id)

\* C6: Release of an allocation in the table succeeds, removes it and frees
\* exactly its bytes and its floor; Release of an id not in the table returns
\* NOT_FOUND and frees nothing; a released id never comes back.
C6_ReleaseExactlyOnce ==
    [][\A i \in Ids :
         /\ Release(i) =>
              IF Active(i)
                THEN /\ lastResult' = [op |-> "release", id |-> i, result |-> "OK"]
                     /\ ledger'[i] = NoAlloc
                     /\ usedBytes' = [usedBytes EXCEPT ![ledger[i].tier] = @ - ledger[i].bytes]
                     /\ committedBw' = [committedBw EXCEPT ![ledger[i].tier] = @ - ledger[i].floor]
                ELSE /\ lastResult' = [op |-> "release", id |-> i, result |-> "NOT_FOUND"]
                     /\ UNCHANGED <<ledger, usedBytes, committedBw, mig>>
         /\ (i < nextId /\ ~Active(i)) => ledger'[i] = NoAlloc]_vars

\* the second Release of an id that was allocated and released
C6_Witness ==
    /\ lastResult.op = "release"
    /\ lastResult.result = "NOT_FOUND"
    /\ lastResult.id < nextId
    /\ \E t \in Tiers : usedBytes[t] > 0

(***************************************************************************)
(* Claims about the enforcer (SpecEnforcer)                                *)
(***************************************************************************)
Faster(t, u) == TierIndex(t) < TierIndex(u)

C8_BoundedRetry ==
    /\ [](\A i \in Ids :
            /\ attempts[i] <= MaxAttempts
            /\ intent[i] # Null => (Active(i) /\ attempts[i] < MaxAttempts)
            /\ attempts[i] >= MaxAttempts =>
                 (Active(i) /\ ledger[i].degraded /\ intent[i] = Null))
    /\ [][\A i \in Ids :
            /\ (MigrateAbort(i) /\ mig[i].by = "enforcer") => attempts'[i] = attempts[i] + 1
            /\ (MigrateIntent(i) /\ MigrateCheck(i, intent[i]) # "OK") =>
                  attempts'[i] = attempts[i] + 1
            /\ (Active(i) /\ ledger[i].degraded /\ ledger'[i] # NoAlloc) => ledger'[i].degraded]_vars

\* an allocation marked degraded after MaxAttempts failed attempts
C8_Witness ==
    \E i \in List : /\ attempts[i] = MaxAttempts
                    /\ ledger[i].degraded
                    /\ records.id = i
                    /\ records.outcome = "aborted"

=============================================================================
